---- MODULE Spec2Model ----
(***************************************************************************)
(* The background service worker of the thumbnail capture extension:       *)
(* the captureScreenshot message listener, handleScreenshotCapture,        *)
(* processImage (coordinate scaling and clamping), the cached              *)
(* authentication token (getAuthToken) and the five-request compression    *)
(* workflow (compressImage).                                               *)
(*                                                                         *)
(* The worker is single threaded: code between two awaits runs atomically, *)
(* so every action below is one such segment.  An action that ends in an   *)
(* await leaves the call at the program point named by pc; the next action *)
(* of that call consumes the settled promise, whose value is drawn from    *)
(* the outcomes the platform or the remote service can produce.            *)
(***************************************************************************)
EXTENDS Integers, Sequences, FiniteSets, TLC

\* ------------------------------------------------------------------ bounds
\* Calls of handleScreenshotCapture that may be in progress at once.
NumCalls == 2
\* Messages the listener receives in one run.
MaxMessages == 2
\* Times the clock advances in one run.
MaxTicks == 1
\* Largest viewport or screenshot side, and largest selection coordinate or
\* size, explored for the coordinate mapping.
MaxSide == 3
\* Largest byte length explored for the reduction, besides the documented
\* ones.
MaxBytes == 16
\* Drag and resize events the selection overlay handles in one run.
MaxEvents == 3
\* Messages the content script's listener receives in one run.
MaxShows == 3
\* handleCapture calls of the content script that may be under way at once.
MaxCaptures == 2
\* Clicks on the popup's Capture Thumbnail button in one run.
MaxClicks == 2

Calls == 1..NumCalls
Captures == 1..MaxCaptures

\* ------------------------------------------------------------ configuration
TOKEN_VALIDITY_MS == 2 * 60 * 60 * 1000

imageConfig ==
  [width |-> 560, height |-> 315, format |-> "image/jpeg"]

Extension(format) == IF format = "image/png" THEN "png" ELSE "jpg"

chunkSize == 8192

VARIABLES
  hasPublicKey,  \* !!iLoveIMGConfig.publicKey, fixed when the worker starts
  clock,         \* Date.now()
  ticks,         \* number of clock advances so far
  cachedToken,   \* the module-level token cache
  authIssued,    \* authentication requests issued so far
  startIssued,   \* start requests issued so far
  msgs,          \* messages received so far
  pc,            \* per call: the await the call is suspended at
  req,           \* per call: the message {bounds, templateId}
  shot,          \* per call: screenshotWidth, screenshotHeight
  crop,          \* per call: finalX, finalY, finalWidth, finalHeight
  image,         \* per call: resizedBlob, the bytes handed to compressImage
  target,        \* per call: width and height of targetCanvas
  now,           \* per call: the `now` sampled by getAuthToken
  token,         \* per call: compressImage's local `token`
  job,           \* per call: {server, task} of the start response
  upfile,        \* per call: serverFilename of the upload response
  issued,        \* per call: the requests of the compression workflow, in order
  outcome,       \* per call: compressionResult
  reply,         \* per call: what sendResponse was called with
  hist,          \* history: the first successful authentication, overlaps
  dataUrl,       \* per call: the settled captureVisibleTab promise
  mapped,        \* the last application of the coordinate mapping (SpecMap)
  measured,      \* the last reduction computed on its own (SpecReduction)
  window,        \* content script: window.innerWidth, window.innerHeight
  bounds,        \* content script: SelectionOverlay's bounds state
  committed,     \* content script: the bounds onCapture was called with
  events,        \* content script: drag and resize events handled so far
  overlayState,  \* content script: the module-level overlayState
  component,     \* content script: PlasmoOverlay's React state
  captures,      \* content script: per handleCapture call, where it stands
  inbox,         \* content script: the messages the listener has handled
  popup,         \* popup: IndexPopup's React state, and whether it is open
  click          \* popup: the handleCaptureThumbnail call of the last click

configVars == <<hasPublicKey>>
timeVars == <<clock, ticks>>
imageVars == <<req, dataUrl, shot, crop, image, target>>
compressVars == <<now, token, job, upfile, issued, outcome>>
\* Everything the background service worker holds.
workerVars == <<hasPublicKey, clock, ticks, cachedToken, authIssued,
                startIssued, msgs, pc, req, dataUrl, shot, crop, image, target,
                now, token, job, upfile, issued, outcome, reply, hist>>
\* The selection overlay of the content script.
overlayVars == <<window, bounds, committed, events>>
\* The content script's overlay state, root component and capture calls.
contentVars == <<overlayState, component, captures, inbox>>
\* What lives in pages other than the service worker's.
\* The popup.
popupVars == <<popup, click>>
pageVars == <<contentVars, popupVars>>
\* Everything the worker's actions leave alone.
otherVars == <<mapped, measured, overlayVars, pageVars>>
vars == <<workerVars, otherVars>>

\* ------------------------------------------------------------------ values
\* cachedToken = null
NullToken == [isNull |-> TRUE, token |-> 0, expiresAt |-> 0]

NoMessage == <<>>
NoOutcome == [returned |-> FALSE]
NoReply == [sent |-> 0]
\* No authentication has succeeded and no two getAuthToken calls overlapped.
NoHistory ==
  [overlap |-> FALSE,
   first |-> [set |-> FALSE, id |-> 0, token |-> 0, sampled |-> 0]]
NoJob == [server |-> 0, task |-> 0]
NoRegion == [x |-> 0, y |-> 0, width |-> 0, height |-> 0]
\* A string or null (or undefined): null, and the string v.
NullId == [isNull |-> TRUE, value |-> <<>>]
Id(v) == [isNull |-> FALSE, value |-> v]
\* downloadData = null
NoDownload ==
  [isNull |-> TRUE, imageDataUrl |-> "", filename |-> "", compression |-> ""]
\* PlasmoOverlay has not been rendered yet.
NotMounted ==
  [mounted |-> FALSE, showOverlay |-> FALSE, templateId |-> NullId,
   isProcessing |-> FALSE, downloadData |-> NoDownload]
\* The response slot of a handleCapture call that has none yet.
NoResponse ==
  [settled |-> "pending", defined |-> FALSE, error |-> <<>>,
   imageDataUrl |-> "", filename |-> "", compression |-> ""]
\* No handleCapture call is running in this slot.
IdleCapture == [pc |-> "idle", templateId |-> NullId, response |-> NoResponse]
\* chrome.tabs.query returned an empty array: `tab` is undefined.
NoTab ==
  [exists |-> FALSE, id |-> 0,
   url |-> [present |-> FALSE, valid |-> FALSE, protocol |-> "",
            pathname |-> <<>>]]
\* The Capture Thumbnail handler has not been called.
NoClick ==
  [pc |-> "idle", clicks |-> 0, templateId |-> <<>>, queried |-> FALSE,
   tab |-> NoTab, sends |-> <<>>]
\* No target canvas has been created.
NoCanvas == [width |-> 0, height |-> 0]
\* No page: the content script has mounted no overlay.
NoWindow == [innerWidth |-> 0, innerHeight |-> 0]
\* A templateId is the sequence of its characters; <<>> is null or "".
NoRequest == [bounds |-> NoRegion, templateId |-> <<>>]
\* captureVisibleTab has not settled.
NoCapture == [settled |-> "pending", url |-> ""]

\* Encoded images are byte strings; only their identity and length matter.
EncodedImages == {<<1, 2, 3>>, <<4, 5>>}
DownloadedImages == {<<6>>, <<7, 8, 9, 10>>}

\* ---------------------------------------------------------------- responses
\* A settled fetch: the promise rejected (network error), or resolved with a
\* status that is ok or not and a body that is not JSON, is the JSON value
\* null, or is a JSON object with the fields in data (0 and "" are absent).
Response(fetch, ok, body, data) ==
  [fetch |-> fetch, ok |-> ok, status |-> IF ok THEN "200" ELSE "401",
   body |-> body, data |-> data]

Failures(data) ==
  { Response("rejected", FALSE, "invalid", data),
    Response("resolved", FALSE, "object", data),
    Response("resolved", TRUE, "invalid", data),
    Response("resolved", TRUE, "null", data) }

AuthResponses(fresh) ==
  Failures([token |-> 0])
    \cup { Response("resolved", TRUE, "object", [token |-> t]) : t \in {0, fresh} }

StartResponses(fresh) ==
  Failures([server |-> 0, task |-> 0])
    \cup { Response("resolved", TRUE, "object", d) :
             d \in { [server |-> fresh, task |-> fresh],
                     [server |-> 0, task |-> fresh],
                     [server |-> fresh, task |-> 0] } }

UploadResponses ==
  Failures([server_filename |-> 0])
    \cup { Response("resolved", TRUE, "object", [server_filename |-> f]) :
             f \in {0, 1} }

ProcessResponses ==
  Failures([status |-> "", status_message |-> ""])
    \cup { Response("resolved", TRUE, "object",
                    [status |-> s, status_message |-> ""]) :
             s \in {"TaskSuccess", "TaskError", ""} }
    \cup { Response("resolved", TRUE, "object",
                    [status |-> "TaskError", status_message |-> "bad file"]) }

\* The download body is read with blob(), which takes any bytes.
DownloadResponses ==
  { Response("rejected", FALSE, "invalid", [bytes |-> <<>>]),
    Response("resolved", FALSE, "object", [bytes |-> <<>>]),
    Response("resolved", TRUE, "invalid", [bytes |-> <<>>]) }
    \cup { Response("resolved", TRUE, "object", [bytes |-> b]) :
             b \in DownloadedImages }

\* ------------------------------------------------------------------ errors
\* An error message is the sequence of the parts concatenated by the code;
\* <<>> means that nothing was thrown.
NoError == <<>>
NetworkError == <<"TypeError", ": ", "Failed to fetch">>
SyntaxError == <<"SyntaxError", ": ", "Unexpected token">>
NullError == <<"TypeError", ": ", "Cannot read properties of null">>
Contains(message, part) == \E i \in 1..Len(message) : message[i] = part

\* What response.json() followed by reading fields throws, if anything.
JsonError(r) ==
  IF r.body = "invalid" THEN SyntaxError
  ELSE IF r.body = "null" THEN NullError
  ELSE NoError

AuthError(r) ==
  IF r.fetch = "rejected" THEN NetworkError
  ELSE IF ~r.ok THEN <<"Authentication failed", ": ", r.status>>
  ELSE IF JsonError(r) # NoError THEN JsonError(r)
  ELSE IF r.data.token = 0
         THEN <<"No token received from authentication endpoint">>
  ELSE NoError

StartError(r) ==
  IF r.fetch = "rejected" THEN NetworkError
  ELSE IF ~r.ok THEN <<"Start task failed", " (", r.status, "): ">>
  ELSE IF JsonError(r) # NoError THEN JsonError(r)
  ELSE IF r.data.server = 0 \/ r.data.task = 0
         THEN <<"Invalid response from start endpoint">>
  ELSE NoError

\* Mutant: the server_filename check is missing.
UploadErrorNoFieldCheck(r) ==
  IF r.fetch = "rejected" THEN NetworkError
  ELSE IF ~r.ok THEN <<"Upload failed", ": ", r.status>>
  ELSE JsonError(r)

UploadError(r) ==
  IF r.fetch = "rejected" THEN NetworkError
  ELSE IF ~r.ok THEN <<"Upload failed", ": ", r.status>>
  ELSE IF JsonError(r) # NoError THEN JsonError(r)
  ELSE IF r.data.server_filename = 0
         THEN <<"Invalid response from upload endpoint">>
  ELSE NoError

\* Mutant: only an unknown status is refused; "TaskError" passes.
ProcessErrorAnyStatus(r) ==
  IF r.fetch = "rejected" THEN NetworkError
  ELSE IF ~r.ok THEN <<"Process failed", ": ", r.status>>
  ELSE IF JsonError(r) # NoError THEN JsonError(r)
  ELSE IF r.data.status \notin {"TaskSuccess", "TaskError"}
         THEN <<"Processing failed", ": ",
                IF r.data.status_message # ""
                  THEN r.data.status_message ELSE "Unknown error">>
  ELSE NoError

ProcessError(r) ==
  IF r.fetch = "rejected" THEN NetworkError
  ELSE IF ~r.ok THEN <<"Process failed", ": ", r.status>>
  ELSE IF JsonError(r) # NoError THEN JsonError(r)
  ELSE IF r.data.status # "TaskSuccess"
         THEN <<"Processing failed", ": ",
                IF r.data.status_message # ""
                  THEN r.data.status_message ELSE "Unknown error">>
  ELSE NoError

\* Mutant: the status of the download response is not looked at.
DownloadErrorIgnoresStatus(r) ==
  IF r.fetch = "rejected" THEN NetworkError
  ELSE IF r.ok /\ r.body = "invalid"
    THEN <<"TypeError", ": ", "Failed to fetch">>
  ELSE NoError

DownloadError(r) ==
  IF r.fetch = "rejected" THEN NetworkError
  ELSE IF ~r.ok THEN <<"Download failed", ": ", r.status>>
  ELSE IF r.body = "invalid" THEN <<"TypeError", ": ", "Failed to fetch">>
  ELSE NoError


\* ------------------------------------------------------- coordinate mapping
Min(a, b) == IF a < b THEN a ELSE b
Max(a, b) == IF a > b THEN a ELSE b

\* Mutant: Math.floor in place of Math.round.
MathFloor(num, den) == num \div den

\* Math.round(num / den) for den > 0: the nearest integer, halves upwards.
MathRound(num, den) == (2 * num + den) \div (2 * den)

\* The viewport used for scaling: the injected script's result when there
\* is one, else the screenshot's own dimensions.
\* Mutant: without a script result the viewport is taken to be one pixel.
ViewportUnitDefault(result, screenshotWidth, screenshotHeight) ==
  IF result.ok
    THEN [width |-> result.width, height |-> result.height]
    ELSE [width |-> 1, height |-> 1]

Viewport(result, screenshotWidth, screenshotHeight) ==
  IF result.ok
    THEN [width |-> result.width, height |-> result.height]
    ELSE [width |-> screenshotWidth, height |-> screenshotHeight]

\* Mutant: the scaled size is not cut to what is left of the screenshot.
FinalSizeUnclamped(scaled, screenshotSide, finalOrigin) == scaled

\* Math.min(scaledWidth, screenshotWidth - finalX), likewise for the height.
FinalSize(scaled, screenshotSide, finalOrigin) ==
  Min(scaled, screenshotSide - finalOrigin)

\* Mutant: the origin is not raised to 0.
CropRegionNoLowerClamp(cropBounds, viewport, screenshotWidth, screenshotHeight) ==
  LET scaledX == MathRound(cropBounds.x * screenshotWidth, viewport.width)
      scaledY == MathRound(cropBounds.y * screenshotHeight, viewport.height)
      scaledWidth ==
        MathRound(cropBounds.width * screenshotWidth, viewport.width)
      scaledHeight ==
        MathRound(cropBounds.height * screenshotHeight, viewport.height)
      finalX == Min(scaledX, screenshotWidth - 1)
      finalY == Min(scaledY, screenshotHeight - 1)
  IN  [x |-> finalX, y |-> finalY,
       width |-> FinalSize(scaledWidth, screenshotWidth, finalX),
       height |-> FinalSize(scaledHeight, screenshotHeight, finalY)]

\* scaleX = screenshotWidth / viewportWidth, scaleY likewise; the bounds are
\* scaled, rounded and clamped into the screenshot.
CropRegion(cropBounds, viewport, screenshotWidth, screenshotHeight) ==
  LET scaledX == MathRound(cropBounds.x * screenshotWidth, viewport.width)
      scaledY == MathRound(cropBounds.y * screenshotHeight, viewport.height)
      scaledWidth ==
        MathRound(cropBounds.width * screenshotWidth, viewport.width)
      scaledHeight ==
        MathRound(cropBounds.height * screenshotHeight, viewport.height)
      finalX == Max(0, Min(scaledX, screenshotWidth - 1))
      finalY == Max(0, Min(scaledY, screenshotHeight - 1))
  IN  [x |-> finalX, y |-> finalY,
       width |-> FinalSize(scaledWidth, screenshotWidth, finalX),
       height |-> FinalSize(scaledHeight, screenshotHeight, finalY)]

\* What the canvas calls of processImage throw for a crop region: a negative
\* size is refused by the OffscreenCanvas constructor, and drawing from a
\* canvas with a zero side is refused by drawImage; a missing 2d context is
\* reported by the code itself.
CanvasError(region, contextOk) ==
  IF region.width < 0 \/ region.height < 0
    THEN <<"TypeError", ": ", "Value is outside the unsigned long long range">>
  ELSE IF ~contextOk THEN <<"Failed to get crop canvas context">>
  ELSE IF region.width = 0 \/ region.height = 0
    THEN <<"InvalidStateError", ": ", "The image argument is a canvas with a zero side">>
  ELSE NoError

\* ------------------------------------------------------ compression results
\* num / den lies exactly half-way between two integers.
HalfWay(num, den) ==
  /\ (2 * num) % den = 0
  /\ ((2 * num) \div den) % 2 = 1

\* Mutant: the share that is left, not the share that was saved.
ReductionsOfRatio(originalSize, compressedSize) ==
  IF originalSize = 0
    THEN { [kind |-> "NaN", tenths |-> 0] }
    ELSE { [kind |-> "number",
            tenths |-> MathRound(1000 * compressedSize, originalSize)] }

\* ((1 - compressedSize / originalSize) * 100).toFixed(1) + "%", in tenths of
\* a percent; a zero originalSize divides by zero.  The expression is
\* evaluated in double precision: away from half-way values toFixed gives
\* the nearest tenth, but at a half-way value the double lies on either
\* side of it (6.25 gives "6.3", 0.05 computed as 0.04999... gives "0.0"),
\* so both neighbours are outcomes.
Reductions(originalSize, compressedSize) ==
  IF originalSize = 0
    THEN { [kind |-> IF compressedSize = 0 THEN "NaN" ELSE "-Infinity",
            tenths |-> 0] }
    ELSE LET num == 1000 * (originalSize - compressedSize)
             up == MathRound(num, originalSize)
         IN  { [kind |-> "number", tenths |-> t] :
                 t \in IF HalfWay(num, originalSize) THEN {up - 1, up}
                                                     ELSE {up} }

\* The fallback's details carry no reduction.
NoReduction == [kind |-> "absent", tenths |-> 0]

SuccessOutcome(imageBlob, compressedBlob, reduction) ==
  [returned |-> TRUE, blob |-> compressedBlob, compressed |-> TRUE,
   error |-> NoError,
   details |-> [fallback |-> FALSE,
                originalSize |-> Len(imageBlob),
                compressedSize |-> Len(compressedBlob),
                reduction |-> reduction]]

\* Mutant: the fallback carries no error message.
FallbackOutcomeNoMessage(imageBlob, errorMessage) ==
  [returned |-> TRUE, blob |-> imageBlob, compressed |-> FALSE,
   error |-> NoError,
   details |-> [fallback |-> TRUE, originalSize |-> 0, compressedSize |-> 0,
                reduction |-> NoReduction]]

\* The catch block of compressImage.
FallbackOutcome(imageBlob, errorMessage) ==
  [returned |-> TRUE, blob |-> imageBlob, compressed |-> FALSE,
   error |-> errorMessage,
   details |-> [fallback |-> TRUE, originalSize |-> 0, compressedSize |-> 0,
                reduction |-> NoReduction]]

\* -------------------------------------------------------------- the result
RECURSIVE BinaryString(_, _)
\* The chunk loop of handleScreenshotCapture, from index i (0-based).
BinaryString(bytes, i) ==
  IF i >= Len(bytes) THEN <<>>
  ELSE SubSeq(bytes, i + 1, Min(i + chunkSize, Len(bytes)))
         \o BinaryString(bytes, i + chunkSize)

Btoa(binaryString) == [base64 |-> binaryString]

DataUrl(blob) ==
  [mime |-> imageConfig.format, data |-> Btoa(BinaryString(blob, 0))]

\* `${templateId}.${extension}` or `thumbnail-${Date.now()}.${extension}`:
\* the characters before the epoch (-1: no epoch), the epoch, the extension.
Filename(templateId, epochMs) ==
  IF templateId # <<>>
    THEN [stem |-> templateId, epoch |-> -1,
          ext |-> Extension(imageConfig.format)]
    ELSE [stem |-> <<"thumbnail-">>, epoch |-> epochMs,
          ext |-> Extension(imageConfig.format)]

\* The object handleScreenshotCapture resolves with.
CaptureResult(compressionResult, templateId, epochMs) ==
  [success |-> TRUE,
   filename |-> Filename(templateId, epochMs),
   imageDataUrl |-> DataUrl(compressionResult.blob)]


\* ------------------------------------------------------------ initial state
InitWorker ==
  /\ hasPublicKey \in BOOLEAN
  /\ clock = 0
  /\ ticks = 0
  /\ cachedToken = NullToken
  /\ authIssued = 0
  /\ startIssued = 0
  /\ msgs = 0
  /\ pc = [c \in Calls |-> "idle"]
  /\ req = [c \in Calls |-> NoRequest]
  /\ shot = [c \in Calls |-> [width |-> 0, height |-> 0]]
  /\ crop = [c \in Calls |-> NoRegion]
  /\ image = [c \in Calls |-> <<>>]
  /\ target = [c \in Calls |-> NoCanvas]
  /\ now = [c \in Calls |-> 0]
  /\ token = [c \in Calls |-> 0]
  /\ job = [c \in Calls |-> NoJob]
  /\ upfile = [c \in Calls |-> 0]
  /\ issued = [c \in Calls |-> <<>>]
  /\ outcome = [c \in Calls |-> NoOutcome]
  /\ reply = [c \in Calls |-> NoReply]
  /\ hist = NoHistory
  /\ dataUrl = [c \in Calls |-> NoCapture]

\* The worker has started; no overlay is mounted in the page.
Init ==
  /\ InitWorker
  /\ mapped = [applied |-> FALSE]
  /\ measured = [applied |-> FALSE]
  /\ window = NoWindow
  /\ bounds = NoRegion
  /\ committed = [called |-> FALSE, bounds |-> NoRegion]
  /\ events = 0
  /\ overlayState = [show |-> FALSE, templateId |-> NullId, listeners |-> 0]
  /\ component = NotMounted
  /\ captures = [k \in Captures |-> IdleCapture]
  /\ inbox = [received |-> 0, shows |-> 0, answered |-> 0, pending |-> FALSE,
              templateId |-> NullId]
  /\ popup = [open |-> TRUE, mounted |-> FALSE, templateId |-> <<>>,
              isCapturing |-> FALSE, error |-> <<>>]
  /\ click = NoClick

\* ------------------------------------------------------------------- inputs
\* Screenshots and viewports met by the capture pipeline.
ScreenshotSizes == { [width |-> 4, height |-> 2], [width |-> 8, height |-> 4] }
ViewportResults ==
  { [ok |-> FALSE, width |-> 0, height |-> 0],
    [ok |-> TRUE, width |-> 4, height |-> 2] }
\* The payloads of the captureScreenshot messages: a selection with a
\* templateId, one without, one whose templateId is a blank, and a selection
\* of no width.
Messages ==
  { [bounds |-> [x |-> 1, y |-> 0, width |-> 2, height |-> 1],
     templateId |-> <<"t", "p", "l">>],
    [bounds |-> [x |-> 3, y |-> 1, width |-> 2, height |-> 1],
     templateId |-> <<>>],
    [bounds |-> [x |-> 1, y |-> 0, width |-> 2, height |-> 1],
     templateId |-> <<" ">>],
    [bounds |-> [x |-> 1, y |-> 0, width |-> 0, height |-> 1],
     templateId |-> <<"t", "p", "l">>] }

Pending == [fetch |-> "pending"]

\* A request of the workflow, just issued and waiting for its response: its
\* step, its ordinal among the requests of that step (the service names the
\* token or task it grants after it), its bearer token (0: none) and the
\* server and task it is addressed to (0: none).
Sent(step, id, bearer, server, task) ==
  [step |-> step, id |-> id, token |-> bearer, server |-> server,
   task |-> task, resp |-> Pending]

\* The requests of a call once the response r to the last one has arrived.
Answered(requests, r) ==
  [requests EXCEPT ![Len(requests)] = [@ EXCEPT !.resp = r]]

\* ---------------------------------------------------------------- listener
\* sendResponse({error: message})
ErrorReply(previous, message) ==
  [sent |-> previous.sent + 1, kind |-> "error", error |-> message]

\* sendResponse(result)
ResultReply(previous, result) ==
  [sent |-> previous.sent + 1, kind |-> "result", result |-> result]

\* handleScreenshotCapture rejects: the listener answers {error: message}.
Reject(c, message) ==
  /\ reply' = [reply EXCEPT ![c] = ErrorReply(@, message)]
  /\ pc' = [pc EXCEPT ![c] = "done"]

\* Mutant: a message without a tab id is refused whatever its action.
ListenerReplyToAnyAction(action, hasTabId) ==
  IF ~hasTabId
    THEN ErrorReply(NoReply, <<"No tab ID found">>)
    ELSE NoReply

\* What the listener has passed to sendResponse by the time it returns: the
\* error of a captureScreenshot message without a tab id, else nothing yet.
ListenerReply(action, hasTabId) ==
  IF action = "captureScreenshot" /\ ~hasTabId
    THEN ErrorReply(NoReply, <<"No tab ID found">>)
    ELSE NoReply

\* chrome.runtime.onMessage listener; for a captureScreenshot message with a
\* tab id it runs handleScreenshotCapture up to captureVisibleTab.  The call
\* takes the first record that holds no call in progress.
OnMessage(c) ==
  /\ pc[c] \in {"idle", "done"}
  /\ \A other \in 1..(c - 1) : pc[other] \notin {"idle", "done"}
  /\ msgs < MaxMessages
  /\ msgs' = msgs + 1
  /\ \E action \in {"captureScreenshot", "other"}, hasTabId \in BOOLEAN,
        message \in Messages :
       /\ reply' = [reply EXCEPT ![c] = ListenerReply(action, hasTabId)]
       /\ IF action # "captureScreenshot"
            THEN /\ pc' = [pc EXCEPT ![c] = "idle"]
                 /\ req' = [req EXCEPT ![c] = NoRequest]
          ELSE IF ~hasTabId
            THEN /\ pc' = [pc EXCEPT ![c] = "done"]
                 /\ req' = [req EXCEPT ![c] = NoRequest]
          ELSE /\ pc' = [pc EXCEPT ![c] = "captureVisibleTab"]
               /\ req' = [req EXCEPT ![c] = message]
  /\ dataUrl' = [dataUrl EXCEPT ![c] = NoCapture]
  /\ shot' = [shot EXCEPT ![c] = [width |-> 0, height |-> 0]]
  /\ crop' = [crop EXCEPT ![c] = NoRegion]
  /\ image' = [image EXCEPT ![c] = <<>>]
  /\ target' = [target EXCEPT ![c] = NoCanvas]
  /\ now' = [now EXCEPT ![c] = 0]
  /\ token' = [token EXCEPT ![c] = 0]
  /\ job' = [job EXCEPT ![c] = NoJob]
  /\ upfile' = [upfile EXCEPT ![c] = 0]
  /\ issued' = [issued EXCEPT ![c] = <<>>]
  /\ outcome' = [outcome EXCEPT ![c] = NoOutcome]
  /\ UNCHANGED <<configVars, timeVars, cachedToken, authIssued, startIssued,
                 hist, otherVars>>

\* ------------------------------------------------- handleScreenshotCapture
\* What chrome.tabs.captureVisibleTab settles with: a rejection (the page
\* cannot be captured), no data URL, or the data URL of a PNG.
CaptureResults ==
  { [settled |-> "rejected", url |-> ""],
    [settled |-> "resolved", url |-> ""],
    [settled |-> "resolved", url |-> "data:image/png;base64"] }

\* Mutant: an empty data URL is not refused.
CaptureErrorIgnoresEmpty(result) ==
  IF result.settled = "rejected"
    THEN <<"Cannot capture the visible tab">>
    ELSE NoError

\* What the first step of handleScreenshotCapture throws, if anything.
CaptureError(result) ==
  IF result.settled = "rejected"
    THEN <<"Cannot capture the visible tab">>
  ELSE IF result.url = "" THEN <<"Failed to capture screenshot">>
  ELSE NoError

\* captureVisibleTab settles; on a data URL, chrome.tabs.get is called.
CaptureDone(c) ==
  /\ pc[c] = "captureVisibleTab"
  /\ \E result \in CaptureResults :
       /\ dataUrl' = [dataUrl EXCEPT ![c] = result]
       /\ IF CaptureError(result) # NoError
            THEN Reject(c, CaptureError(result))
            ELSE /\ pc' = [pc EXCEPT ![c] = "tabsGet"]
                 /\ UNCHANGED reply
  /\ UNCHANGED <<configVars, timeVars, cachedToken, authIssued, startIssued,
                 msgs, req, shot, crop, image, target, compressVars, hist,
                 otherVars>>

\* chrome.tabs.get settles; processImage starts by decoding the data URL.
TabsGetDone(c) ==
  /\ pc[c] = "tabsGet"
  /\ \E ok \in BOOLEAN :
       IF ok
         THEN /\ pc' = [pc EXCEPT ![c] = "createImageBitmap"]
              /\ UNCHANGED reply
         ELSE Reject(c, <<"No tab with id">>)
  /\ UNCHANGED <<configVars, timeVars, cachedToken, authIssued, startIssued,
                 msgs, imageVars, compressVars, hist, otherVars>>

\* processImage: the screenshot is decoded; the viewport script is injected.
DecodeDone(c) ==
  /\ pc[c] = "createImageBitmap"
  /\ \/ /\ Reject(c, <<"The source image could not be decoded">>)
        /\ UNCHANGED shot
     \/ \E size \in ScreenshotSizes :
          /\ shot' = [shot EXCEPT ![c] = size]
          /\ pc' = [pc EXCEPT ![c] = "executeScript"]
          /\ UNCHANGED reply
  /\ UNCHANGED <<configVars, timeVars, cachedToken, authIssued, startIssued,
                 msgs, req, dataUrl, crop, image, target, compressVars,
                 hist, otherVars>>

\* Mutant: the target canvas takes the size of the crop region.
TargetCanvasOfCrop(region, targetWidth, targetHeight) ==
  [width |-> region.width, height |-> region.height]

\* new OffscreenCanvas(targetWidth, targetHeight): the crop canvas is drawn
\* into it stretched to the whole of it, whatever the size of the region.
TargetCanvas(region, targetWidth, targetHeight) ==
  [width |-> targetWidth, height |-> targetHeight]

\* processImage: executeScript settles (a rejection is caught and ignored);
\* the crop region is computed, cropped and resized; convertToBlob is called.
ViewportDone(c) ==
  /\ pc[c] = "executeScript"
  /\ \E result \in ViewportResults, contextOk \in BOOLEAN :
       LET region == CropRegion(req[c].bounds,
                                Viewport(result, shot[c].width, shot[c].height),
                                shot[c].width, shot[c].height)
       IN  IF CanvasError(region, contextOk) # NoError
             THEN /\ Reject(c, CanvasError(region, contextOk))
                  /\ UNCHANGED <<crop, target>>
             ELSE /\ crop' = [crop EXCEPT ![c] = region]
                  /\ target' = [target EXCEPT ![c] =
                       TargetCanvas(region, imageConfig.width,
                                    imageConfig.height)]
                  /\ pc' = [pc EXCEPT ![c] = "convertToBlob"]
                  /\ UNCHANGED reply
  /\ UNCHANGED <<configVars, timeVars, cachedToken, authIssued, startIssued,
                 msgs, req, dataUrl, shot, image, compressVars, hist,
                 otherVars>>


\* ------------------------------------------------------------ getAuthToken
ConfigurationError == <<"iLoveIMG Public Key not configured. ">>

\* Mutant: the key is not looked at.
MissingKeyIgnored(configured) == FALSE

\* !iLoveIMGConfig.publicKey
MissingKey(configured) == ~configured

\* Mutant: a token is still used at the instant it expires.
CacheValidAtExpiry(cache, t) == ~cache.isNull /\ cache.expiresAt >= t

\* Mutant: the comparison is the wrong way round.
CacheValidReversed(cache, t) == ~cache.isNull /\ cache.expiresAt < t

\* cachedToken && cachedToken.expiresAt > now
CacheValid(cache, t) == ~cache.isNull /\ cache.expiresAt > t

\* Mutant: the validity runs from the time of the response.
CachedFromResponseTime(newToken, sampled, current) ==
  [isNull |-> FALSE, token |-> newToken,
   expiresAt |-> current + TOKEN_VALIDITY_MS]

\* cachedToken = {token, expiresAt: now + TOKEN_VALIDITY_MS}, `now` being the
\* time sampled before the request; current is the time of the write.
Cached(newToken, sampled, current) ==
  [isNull |-> FALSE, token |-> newToken,
   expiresAt |-> sampled + TOKEN_VALIDITY_MS]

\* Mutant: a failed authentication empties the cache.
CacheDroppedOnFailure(cache, r, sampled, current) ==
  IF AuthError(r) # NoError
    THEN NullToken
    ELSE Cached(r.data.token, sampled, current)

\* The cache once getAuthToken has handled the response r: the assignment to
\* cachedToken comes after every throw of the function.
CacheAfterAuth(cache, r, sampled, current) ==
  IF AuthError(r) # NoError
    THEN cache
    ELSE Cached(r.data.token, sampled, current)

\* ------------------------------------------------------------ compressImage
\* compressImage returns and its locals go out of scope; the caller builds
\* the filename and the data URL and resolves, and the listener passes the
\* result to sendResponse.  (The await of arrayBuffer() in between touches
\* nothing shared and cannot fail for a blob held in memory.)
Return(c, result) ==
  /\ outcome' = [outcome EXCEPT ![c] = result]
  /\ reply' = [reply EXCEPT ![c] =
                 ResultReply(@, CaptureResult(result, req[c].templateId,
                                              clock))]
  /\ now' = [now EXCEPT ![c] = 0]
  /\ token' = [token EXCEPT ![c] = 0]
  /\ job' = [job EXCEPT ![c] = NoJob]
  /\ upfile' = [upfile EXCEPT ![c] = 0]
  /\ pc' = [pc EXCEPT ![c] = "done"]

\* Mutant: the error is not caught and handleScreenshotCapture rejects.
FallbackRethrows(c, r, errorMessage) ==
  /\ issued' = [issued EXCEPT ![c] = Answered(@, r)]
  /\ Reject(c, errorMessage)
  /\ UNCHANGED <<outcome, now, token, job, upfile>>

\* Mutant: a failed request is sent again (up to six requests a call).
FallbackRetries(c, r, errorMessage) ==
  IF Len(issued[c]) < 6
    THEN /\ issued' = [issued EXCEPT ![c] =
                         Append(Answered(issued[c], r),
                                [issued[c][Len(issued[c])] EXCEPT
                                   !.resp = Pending])]
         /\ UNCHANGED <<outcome, reply, now, token, job, upfile, pc>>
    ELSE /\ issued' = [issued EXCEPT ![c] = Answered(@, r)]
         /\ Return(c, FallbackOutcome(image[c], errorMessage))

\* The response r to the pending request makes the step throw: the catch
\* block returns the fallback.
Fallback(c, r, errorMessage) ==
  /\ issued' = [issued EXCEPT ![c] = Answered(@, r)]
  /\ Return(c, FallbackOutcome(image[c], errorMessage))

\* The response r to the pending request is accepted and the next request
\* is issued.
Proceed(c, r, next, step) ==
  /\ issued' = [issued EXCEPT ![c] = Append(Answered(@, r), next)]
  /\ pc' = [pc EXCEPT ![c] = step]
  /\ UNCHANGED <<outcome, reply>>

\* convertToBlob settles and processImage returns; compressImage runs up to
\* its first request: getAuthToken checks the key and the cache, and either
\* the authentication request or, on a cache hit, the start request is sent.
EncodeDone(c) ==
  /\ pc[c] = "convertToBlob"
  /\ shot' = [shot EXCEPT ![c] = [width |-> 0, height |-> 0]]
  /\ crop' = [crop EXCEPT ![c] = NoRegion]
  /\ req' = [req EXCEPT ![c] = [@ EXCEPT !.bounds = NoRegion]]
  /\ \/ /\ Reject(c, <<"EncodingError">>)
        /\ UNCHANGED <<image, compressVars, authIssued, startIssued, hist>>
     \/ \E bytes \in EncodedImages :
          /\ image' = [image EXCEPT ![c] = bytes]
          /\ hist' = [hist EXCEPT !.overlap =
                        @ \/ (hasPublicKey /\ \E other \in Calls : pc[other] = "auth")]
          /\ IF MissingKey(hasPublicKey)
               THEN /\ Return(c, FallbackOutcome(bytes, ConfigurationError))
                    /\ UNCHANGED <<issued, authIssued, startIssued>>
             ELSE IF CacheValid(cachedToken, clock)
               THEN /\ token' = [token EXCEPT ![c] = cachedToken.token]
                    /\ issued' = [issued EXCEPT ![c] =
                         <<Sent("start", startIssued + 1, cachedToken.token,
                                0, 0)>>]
                    /\ startIssued' = startIssued + 1
                    /\ pc' = [pc EXCEPT ![c] = "start"]
                    /\ UNCHANGED <<now, job, upfile, outcome, reply,
                                   authIssued>>
             ELSE /\ now' = [now EXCEPT ![c] = clock]
                  /\ issued' = [issued EXCEPT ![c] =
                       <<Sent("auth", authIssued + 1, 0, 0, 0)>>]
                  /\ authIssued' = authIssued + 1
                  /\ pc' = [pc EXCEPT ![c] = "auth"]
                  /\ UNCHANGED <<token, job, upfile, outcome, reply,
                                 startIssued>>
  /\ UNCHANGED <<configVars, timeVars, cachedToken, msgs, dataUrl, target,
                 otherVars>>

Last(requests) == requests[Len(requests)]

\* The authentication response arrives; on a token the cache is written,
\* getAuthToken returns and the start request is sent.
AuthDone(c) ==
  /\ pc[c] = "auth"
  /\ \E r \in AuthResponses(Last(issued[c]).id) :
       /\ cachedToken' = CacheAfterAuth(cachedToken, r, now[c], clock)
       /\ IF AuthError(r) # NoError
         THEN /\ Fallback(c, r, AuthError(r))
              /\ UNCHANGED <<startIssued, hist>>
         ELSE /\ token' = [token EXCEPT ![c] = r.data.token]
              /\ now' = [now EXCEPT ![c] = 0]
              /\ Proceed(c, r, Sent("start", startIssued + 1, r.data.token,
                                    0, 0), "start")
              /\ startIssued' = startIssued + 1
              /\ hist' = IF hist.first.set THEN hist
                         ELSE [hist EXCEPT !.first =
                                 [set |-> TRUE, id |-> Last(issued[c]).id,
                                  token |-> r.data.token, sampled |-> now[c]]]
              /\ UNCHANGED <<job, upfile>>
  /\ UNCHANGED <<configVars, timeVars, authIssued, msgs, imageVars, otherVars>>

\* Mutant: the requests after start read the token from the cache.
BearerFromCache(c) == cachedToken.token

\* Authorization: `Bearer ${token}`, token being the const that compressImage
\* bound to what its getAuthToken call returned.
Bearer(c) == token[c]

\* The start response arrives; on {server, task} the upload is sent.
StartDone(c) ==
  /\ pc[c] = "start"
  /\ \E r \in StartResponses(Last(issued[c]).id) :
       IF StartError(r) # NoError
         THEN Fallback(c, r, StartError(r))
         ELSE /\ job' = [job EXCEPT ![c] =
                           [server |-> r.data.server, task |-> r.data.task]]
              /\ Proceed(c, r, Sent("upload", 0, Bearer(c), r.data.server,
                                    r.data.task), "upload")
              /\ UNCHANGED <<now, token, upfile>>
  /\ UNCHANGED <<configVars, timeVars, cachedToken, authIssued, startIssued,
                 msgs, imageVars, hist, otherVars>>

\* The upload response arrives; on a server_filename the process request is
\* sent.
UploadDone(c) ==
  /\ pc[c] = "upload"
  /\ \E r \in UploadResponses :
       IF UploadError(r) # NoError
         THEN Fallback(c, r, UploadError(r))
         ELSE /\ upfile' = [upfile EXCEPT ![c] = r.data.server_filename]
              /\ Proceed(c, r, Sent("process", 0, Bearer(c), job[c].server,
                                    job[c].task), "process")
              /\ UNCHANGED <<now, token, job>>
  /\ UNCHANGED <<configVars, timeVars, cachedToken, authIssued, startIssued,
                 msgs, imageVars, hist, otherVars>>

\* The process response arrives; on TaskSuccess the download is requested.
ProcessDone(c) ==
  /\ pc[c] = "process"
  /\ \E r \in ProcessResponses :
       IF ProcessError(r) # NoError
         THEN Fallback(c, r, ProcessError(r))
         ELSE /\ Proceed(c, r, Sent("download", 0, Bearer(c), job[c].server,
                                    job[c].task), "download")
              /\ UNCHANGED <<now, token, job, upfile>>
  /\ UNCHANGED <<configVars, timeVars, cachedToken, authIssued, startIssued,
                 msgs, imageVars, hist, otherVars>>

\* The download response arrives; on success compressImage returns the
\* downloaded blob.
DownloadDone(c) ==
  /\ pc[c] = "download"
  /\ \E r \in DownloadResponses :
       IF DownloadError(r) # NoError
         THEN Fallback(c, r, DownloadError(r))
         ELSE /\ issued' = [issued EXCEPT ![c] = Answered(@, r)]
              /\ \E reduction \in Reductions(Len(image[c]),
                                              Len(r.data.bytes)) :
                   Return(c, SuccessOutcome(image[c], r.data.bytes,
                                            reduction))
  /\ UNCHANGED <<configVars, timeVars, cachedToken, authIssued, startIssued,
                 msgs, imageVars, hist, otherVars>>

\* Time passes.
TickSteps == {TOKEN_VALIDITY_MS - 1, TOKEN_VALIDITY_MS}

Tick ==
  /\ ticks < MaxTicks
  /\ ticks' = ticks + 1
  /\ \E d \in TickSteps : clock' = clock + d
  /\ UNCHANGED <<configVars, cachedToken, authIssued, startIssued, msgs, pc,
                 imageVars, compressVars, reply, hist, otherVars>>

Next ==
  \/ \E c \in Calls : OnMessage(c)
  \/ \E c \in Calls : CaptureDone(c)
  \/ \E c \in Calls : TabsGetDone(c)
  \/ \E c \in Calls : DecodeDone(c)
  \/ \E c \in Calls : ViewportDone(c)
  \/ \E c \in Calls : EncodeDone(c)
  \/ \E c \in Calls : AuthDone(c)
  \/ \E c \in Calls : StartDone(c)
  \/ \E c \in Calls : UploadDone(c)
  \/ \E c \in Calls : ProcessDone(c)
  \/ \E c \in Calls : DownloadDone(c)
  \/ Tick

Spec == Init /\ [][Next]_vars


\* ------------------------------------------ the coordinate mapping on its own
\* processImage's scaling and clamping applied to every selection, viewport
\* and screenshot of the bounded input space.  Sides are positive: a capture
\* exists only of a visible tab.  Coordinates are whole pixels.
Sides == 1..MaxSide
Coordinates == (-1)..(MaxSide + 1)

InitMap ==
  /\ Init
  /\ hasPublicKey

\* The viewport processImage scales by, for the inputs in m.
MapViewport(m) == Viewport(m.result, m.screenshotWidth, m.screenshotHeight)

ProcessImageMap ==
  /\ ~mapped.applied
  /\ \E screenshotWidth \in Sides, screenshotHeight \in Sides,
        result \in { [ok |-> FALSE, width |-> 0, height |-> 0] }
                     \cup { [ok |-> TRUE, width |-> w, height |-> h] :
                              w \in Sides, h \in Sides },
        x \in Coordinates, y \in Coordinates,
        width \in Coordinates, height \in Coordinates :
       LET cropBounds == [x |-> x, y |-> y, width |-> width, height |-> height]
       IN  mapped' =
             [applied |-> TRUE, cropBounds |-> cropBounds, result |-> result,
              screenshotWidth |-> screenshotWidth,
              screenshotHeight |-> screenshotHeight,
              region |-> CropRegion(cropBounds,
                                    Viewport(result, screenshotWidth,
                                             screenshotHeight),
                                    screenshotWidth, screenshotHeight)]
  /\ UNCHANGED <<workerVars, pageVars, measured, overlayVars>>

\* The captures of the documented scenarios: a 1280x720 viewport captured
\* at device pixel ratio 1 and 2, and a selection that runs over the right
\* edge.
ScenarioViewport == [ok |-> TRUE, width |-> 1280, height |-> 720]

ReferenceInputs ==
  { [cropBounds |-> [x |-> 100, y |-> 100, width |-> 320, height |-> 180],
     result |-> ScenarioViewport,
     screenshotWidth |-> 1280, screenshotHeight |-> 720],
    [cropBounds |-> [x |-> 100, y |-> 100, width |-> 320, height |-> 180],
     result |-> ScenarioViewport,
     screenshotWidth |-> 2560, screenshotHeight |-> 1440],
    [cropBounds |-> [x |-> 1200, y |-> 100, width |-> 320, height |-> 180],
     result |-> ScenarioViewport,
     screenshotWidth |-> 1280, screenshotHeight |-> 720] }

\* processImage's scaling and clamping applied to a documented scenario.
ProcessImageScenario ==
  /\ ~mapped.applied
  /\ \E input \in ReferenceInputs :
       mapped' =
         [applied |-> TRUE, cropBounds |-> input.cropBounds,
          result |-> input.result,
          screenshotWidth |-> input.screenshotWidth,
          screenshotHeight |-> input.screenshotHeight,
          region |-> CropRegion(input.cropBounds,
                                Viewport(input.result, input.screenshotWidth,
                                         input.screenshotHeight),
                                input.screenshotWidth, input.screenshotHeight)]
  /\ UNCHANGED <<workerVars, pageVars, measured, overlayVars>>

NextMap ==
  \/ ProcessImageMap
  \/ ProcessImageScenario

SpecMap == InitMap /\ [][NextMap]_vars

\* ---------------------------------------------------- the selection overlay
\* SelectionOverlay of the content script: the bounds state and the handlers
\* given to the drag-and-resize box.  Lengths are CSS pixels, which need not
\* be whole: a length is a whole number of units, Unit to the pixel, fine
\* enough for the fifths, ninths and sixteenths the code produces.
Unit == 5 * 9 * 16
Px(n) == n * Unit

ASPECT_RATIO == [num |-> 16, den |-> 9]
\* length / ASPECT_RATIO and length * ASPECT_RATIO
DividedByRatio(length) == (length * ASPECT_RATIO.den) \div ASPECT_RATIO.num
TimesRatio(length) == (length * ASPECT_RATIO.num) \div ASPECT_RATIO.den

minWidth == Px(240)
minHeight == DividedByRatio(minWidth)
\* window.innerWidth * 0.8, window.innerHeight * 0.8
maxWidth(w) == (Px(w.innerWidth) * 8) \div 10
maxHeight(w) == (Px(w.innerHeight) * 8) \div 10

\* parseInt(ref.style.width, 10) of a length in px that is not negative.
ParseInt(length) == (length \div Unit) * Unit

\* direction.includes(part), for the handle names of the box and the
\* lower-case parts the code looks for: the comparison is case-sensitive,
\* so "topRight" includes "top" but not "right".
Directions ==
  {"top", "right", "bottom", "left",
   "topRight", "bottomRight", "bottomLeft", "topLeft"}

Includes(direction, part) ==
  \/ direction = part
  \/ part = "top" /\ direction \in {"topRight", "topLeft"}
  \/ part = "bottom" /\ direction \in {"bottomRight", "bottomLeft"}

\* getDefaultSize and getDefaultPosition
DefaultBounds(w) ==
  LET defaultWidth == Min((Px(w.innerWidth) * 6) \div 10, Px(800))
  IN  [x |-> Px(325), y |-> Px(78),
       width |-> defaultWidth, height |-> DividedByRatio(defaultWidth)]

\* The pages the overlay is mounted in.
WindowSizes ==
  { [innerWidth |-> 1280, innerHeight |-> 720],
    [innerWidth |-> 1000, innerHeight |-> 200] }

\* Sizes the box reports in ref.style: it locks the aspect ratio itself
\* (lockAspectRatio) and follows the pointer, so one side is a whole number
\* of pixels and the other follows from the ratio; it keeps both sides
\* within the minimum and maximum it was given.
LockedSizes ==
  { [width |-> Px(w), height |-> DividedByRatio(Px(w))] :
      w \in {240, 241, 256, 800} }
    \cup { [width |-> TimesRatio(Px(h)), height |-> Px(h)] : h \in {136, 144} }

StyleSizes(w) ==
  { size \in LockedSizes :
      /\ minWidth <= size.width
      /\ size.width <= maxWidth(w)
      /\ minHeight <= size.height
      /\ size.height <= maxHeight(w) }

\* Positions the box reports.
Positions ==
  { [x |-> Px(x), y |-> Px(y)] : x \in {0, 325, 1100}, y \in {0, 78, 650} }

\* The component mounts: useState(default bounds).
SelectionOverlay ==
  /\ window = NoWindow
  /\ \E w \in WindowSizes :
       /\ window' = w
       /\ bounds' = DefaultBounds(w)
  /\ UNCHANGED <<workerVars, pageVars, mapped, measured, committed, events>>

\* The bounds after a drag to position d.
Dragged(d) ==
  [bounds EXCEPT
     !.x = Max(0, Min(d.x, Px(window.innerWidth) - bounds.width)),
     !.y = Max(0, Min(d.y, Px(window.innerHeight) - bounds.height))]

onDrag ==
  /\ window # NoWindow
  /\ ~committed.called
  /\ events < MaxEvents
  /\ events' = events + 1
  /\ \E d \in Positions : bounds' = Dragged(d)
  /\ UNCHANGED <<workerVars, pageVars, mapped, measured, window, committed>>

onDragStop ==
  /\ window # NoWindow
  /\ ~committed.called
  /\ events < MaxEvents
  /\ events' = events + 1
  /\ \E d \in Positions : bounds' = Dragged(d)
  /\ UNCHANGED <<workerVars, pageVars, mapped, measured, window, committed>>

handleResize ==
  /\ window # NoWindow
  /\ ~committed.called
  /\ events < MaxEvents
  /\ events' = events + 1
  /\ \E direction \in Directions, style \in StyleSizes(window),
        position \in Positions :
       LET newWidth == ParseInt(style.width)
           newHeight == ParseInt(style.height)
           sideways == Includes(direction, "right") \/ Includes(direction, "left")
           width == Max(minWidth,
                        Min(IF sideways THEN newWidth ELSE TimesRatio(newHeight),
                            maxWidth(window)))
           height == Max(minHeight,
                         Min(IF sideways THEN DividedByRatio(newWidth)
                                         ELSE newHeight,
                             maxHeight(window)))
           newX == IF Includes(direction, "left")
                     THEN bounds.x + bounds.width - width ELSE position.x
           newY == IF Includes(direction, "top")
                     THEN bounds.y + bounds.height - height ELSE position.y
       IN  bounds' =
             [x |-> Max(0, Min(newX, Px(window.innerWidth) - width)),
              y |-> Max(0, Min(newY, Px(window.innerHeight) - height)),
              width |-> width, height |-> height]
  /\ UNCHANGED <<workerVars, pageVars, mapped, measured, window, committed>>

onResizeStop ==
  /\ window # NoWindow
  /\ ~committed.called
  /\ events < MaxEvents
  /\ events' = events + 1
  /\ \E style \in StyleSizes(window), position \in Positions :
       bounds' = [x |-> position.x, y |-> position.y,
                  width |-> ParseInt(style.width),
                  height |-> ParseInt(style.height)]
  /\ UNCHANGED <<workerVars, pageVars, mapped, measured, window, committed>>

\* The Capture Frame button: onCapture(bounds).
onCapture ==
  /\ window # NoWindow
  /\ ~committed.called
  /\ committed' = [called |-> TRUE, bounds |-> bounds]
  /\ UNCHANGED <<workerVars, pageVars, mapped, measured, window, bounds, events>>

NextOverlay ==
  \/ SelectionOverlay
  \/ onDrag
  \/ onDragStop
  \/ handleResize
  \/ onResizeStop
  \/ onCapture

InitOverlay ==
  /\ Init
  /\ hasPublicKey

SpecOverlay == InitOverlay /\ [][NextOverlay]_vars


\* ------------------------------------------------ the reduction on its own
\* The reduction of a successful compression for every pair of byte lengths
\* of the bounded space and for the documented pairs.
OriginalSizes == (0..MaxBytes) \cup {2000, 50000}
CompressedSizes == (0..(MaxBytes + 4)) \cup {1999, 12000}

CompressionSucceeds ==
  /\ ~measured.applied
  /\ \E originalSize \in OriginalSizes, compressedSize \in CompressedSizes :
       \E reduction \in Reductions(originalSize, compressedSize) :
         measured' = [applied |-> TRUE, originalSize |-> originalSize,
                      compressedSize |-> compressedSize,
                      reduction |-> reduction]
  /\ UNCHANGED <<workerVars, pageVars, mapped, overlayVars>>

NextReduction == CompressionSucceeds

SpecReduction == InitMap /\ [][NextReduction]_vars



\* ------------------------------------------------------ the content script
\* The templateId field of a message: absent, empty, or one of two ids.
TemplateIds == { NullId, Id(<<>>), Id(<<"a">>), Id(<<"b">>) }

\* message.templateId || null
OrNull(templateId) ==
  IF templateId.isNull \/ templateId.value = <<>> THEN NullId ELSE templateId

\* What PlasmoOverlay renders.
View ==
  IF ~component.mounted THEN "none"
  ELSE IF ~component.downloadData.isNull THEN "DownloadUI"
  ELSE IF component.isProcessing THEN "LoadingUI"
  ELSE IF component.showOverlay THEN "SelectionOverlay"
  ELSE "null"

\* overlayState.listeners.forEach((listener) => listener()): the mounted
\* component copies show and templateId into its state.
Notified(state, global) ==
  IF global.listeners > 0
    THEN [state EXCEPT !.showOverlay = global.show,
                       !.templateId = global.templateId]
    ELSE state

\* The module-level chrome.runtime.onMessage listener of the content script.
ContentOnMessage ==
  /\ inbox.received < MaxShows
  /\ \E action \in {"showSelectionOverlay", "other"},
        templateId \in TemplateIds :
       IF action = "showSelectionOverlay"
         THEN LET global == [overlayState EXCEPT
                              !.templateId = OrNull(templateId),
                              !.show = TRUE]
              IN  /\ overlayState' = global
                  /\ component' = Notified(component, global)
                  /\ inbox' = [received |-> inbox.received + 1,
                               shows |-> inbox.shows + 1,
                               answered |-> inbox.answered + 1,
                               pending |-> TRUE,
                               templateId |-> templateId]
         ELSE /\ inbox' = [inbox EXCEPT !.received = @ + 1]
              /\ UNCHANGED <<overlayState, component>>
  /\ UNCHANGED <<workerVars, mapped, measured, overlayVars, popupVars,
                 captures>>

\* PlasmoOverlay mounts: its state starts from overlayState, and the effect
\* registers updateState and runs it once.
PlasmoOverlay ==
  /\ ~component.mounted
  /\ LET global == [overlayState EXCEPT !.listeners = @ + 1]
     IN  /\ overlayState' = global
         /\ component' =
              Notified([mounted |-> TRUE, showOverlay |-> overlayState.show,
                        templateId |-> overlayState.templateId,
                        isProcessing |-> FALSE, downloadData |-> NoDownload],
                       global)
  /\ UNCHANGED <<workerVars, mapped, measured, overlayVars, popupVars,
                 captures, inbox>>

\* The Capture Frame button of the rendered overlay: handleCapture runs up
\* to its await of the two animation frames.
handleCapture(k) ==
  /\ View = "SelectionOverlay"
  /\ captures[k].pc = "idle"
  /\ \A other \in 1..(k - 1) : captures[other].pc # "idle"
  /\ LET global == [overlayState EXCEPT !.show = FALSE]
     IN  /\ overlayState' = global
         /\ component' = Notified(component, global)
  /\ captures' = [captures EXCEPT ![k] =
                    [pc |-> "requestAnimationFrame",
                     templateId |-> component.templateId,
                     response |-> NoResponse]]
  /\ inbox' = [inbox EXCEPT !.pending = FALSE]
  /\ UNCHANGED <<workerVars, mapped, measured, overlayVars, popupVars>>

\* The second animation frame has run: setIsProcessing(true), and the
\* captureScreenshot request is sent.
AnimationFrames(k) ==
  /\ captures[k].pc = "requestAnimationFrame"
  /\ component' = [component EXCEPT !.isProcessing = TRUE]
  /\ captures' = [captures EXCEPT ![k] = [@ EXCEPT !.pc = "sendMessage"]]
  /\ UNCHANGED <<workerVars, mapped, measured, overlayVars, popupVars,
                 overlayState, inbox>>

\* What chrome.runtime.sendMessage settles with: a rejection (no receiver),
\* no response at all, an {error}, or a capture result.
CaptureResponses ==
  { [settled |-> "rejected", defined |-> FALSE,
     error |-> <<"Could not establish connection">>,
     imageDataUrl |-> "", filename |-> "", compression |-> ""],
    [settled |-> "resolved", defined |-> FALSE, error |-> <<>>,
     imageDataUrl |-> "", filename |-> "", compression |-> ""],
    [settled |-> "resolved", defined |-> TRUE,
     error |-> <<"Failed to capture screenshot">>,
     imageDataUrl |-> "", filename |-> "", compression |-> ""],
    [settled |-> "resolved", defined |-> TRUE, error |-> <<>>,
     imageDataUrl |-> "data:image/jpeg;base64,AA",
     filename |-> "thumbnail-a.jpg", compression |-> "compressed"],
    [settled |-> "resolved", defined |-> TRUE, error |-> <<>>,
     imageDataUrl |-> "data:image/jpeg;base64,BB",
     filename |-> "thumbnail-1.jpg", compression |-> ""] }

\* Mutant: the error field of the response is not looked at.
CaptureFailureIgnoresError(r) ==
  IF r.settled = "rejected" THEN r.error
  ELSE IF ~r.defined THEN <<"TypeError">>
  ELSE NoError

\* What the try block of handleCapture throws for the settled request, if
\* anything: the rejection, the TypeError of reading a field of undefined,
\* or new Error(response.error).
CaptureFailure(r) ==
  IF r.settled = "rejected" THEN r.error
  ELSE IF ~r.defined THEN <<"TypeError">>
  ELSE IF r.error # <<>> THEN r.error
  ELSE NoError

\* The request of call k settles: the download view is set, or the catch
\* block clears the indicator, alerts and shows the overlay again.
CaptureResponse(k) ==
  /\ captures[k].pc = "sendMessage"
  /\ \E r \in CaptureResponses :
       /\ captures' = [captures EXCEPT ![k] =
                         [pc |-> "idle", templateId |-> NullId,
                          response |-> r]]
       /\ IF CaptureFailure(r) # NoError
            THEN LET global == [overlayState EXCEPT !.show = TRUE]
                 IN  /\ overlayState' = global
                     /\ component' =
                          Notified([component EXCEPT !.isProcessing = FALSE],
                                   global)
            ELSE /\ component' =
                      [component EXCEPT
                         !.isProcessing = FALSE,
                         !.downloadData =
                            [isNull |-> FALSE,
                             imageDataUrl |-> r.imageDataUrl,
                             filename |-> r.filename,
                             compression |-> r.compression]]
                 /\ UNCHANGED overlayState
  /\ UNCHANGED <<workerVars, mapped, measured, overlayVars, popupVars,
                 inbox>>

\* The Cancel button of the rendered overlay.
handleCancel ==
  /\ View = "SelectionOverlay"
  /\ LET global == [overlayState EXCEPT !.show = FALSE, !.templateId = NullId]
     IN  /\ overlayState' = global
         /\ component' =
              [Notified(component, global) EXCEPT
                 !.isProcessing = FALSE, !.downloadData = NoDownload]
  /\ inbox' = [inbox EXCEPT !.pending = FALSE]
  /\ UNCHANGED <<workerVars, mapped, measured, overlayVars, popupVars,
                 captures>>

\* The Close button of the download view, and its Download button, which
\* ends by calling onClose.
handleCloseDownload ==
  /\ View = "DownloadUI"
  /\ LET global == [overlayState EXCEPT !.show = FALSE, !.templateId = NullId]
     IN  /\ overlayState' = global
         /\ component' =
              [Notified(component, global) EXCEPT !.downloadData = NoDownload]
  /\ UNCHANGED <<workerVars, mapped, measured, overlayVars, popupVars,
                 captures, inbox>>

NextContent ==
  \/ ContentOnMessage
  \/ PlasmoOverlay
  \/ \E k \in Captures : handleCapture(k)
  \/ \E k \in Captures : AnimationFrames(k)
  \/ \E k \in Captures : CaptureResponse(k)
  \/ handleCancel
  \/ handleCloseDownload

SpecContent == InitMap /\ [][NextContent]_vars


\* ---------------------------------------------------------------- the popup
\* String.prototype.trim, for strings whose only white space is the blank.
RECURSIVE TrimStart(_)
TrimStart(chars) ==
  IF chars = <<>> THEN <<>>
  ELSE IF Head(chars) = " " THEN TrimStart(Tail(chars))
  ELSE chars

RECURSIVE TrimEnd(_)
TrimEnd(chars) ==
  IF chars = <<>> THEN <<>>
  ELSE IF chars[Len(chars)] = " " THEN TrimEnd(SubSeq(chars, 1, Len(chars) - 1))
  ELSE chars

Trim(chars) == TrimEnd(TrimStart(chars))

\* tab.url: absent, not a URL, or a URL with its protocol and pathname.
Urls ==
  { [present |-> FALSE, valid |-> FALSE, protocol |-> "", pathname |-> <<>>],
    [present |-> TRUE, valid |-> FALSE, protocol |-> "", pathname |-> <<>>],
    [present |-> TRUE, valid |-> TRUE, protocol |-> "https:",
     pathname |-> <<"/", "b">>],
    [present |-> TRUE, valid |-> TRUE, protocol |-> "https:",
     pathname |-> <<"/">>],
    [present |-> TRUE, valid |-> TRUE, protocol |-> "file:",
     pathname |-> <<"/", "b">>],
    [present |-> TRUE, valid |-> TRUE, protocol |-> "chrome:",
     pathname |-> <<"/">>],
    [present |-> TRUE, valid |-> TRUE, protocol |-> "chrome-extension:",
     pathname |-> <<"/", "b">>],
    [present |-> TRUE, valid |-> TRUE, protocol |-> "moz-extension:",
     pathname |-> <<"/", "b">>] }

\* What chrome.tabs.query gives as first tab: none, or a tab with or without
\* an id (0: none) and with one of the URLs.
Tabs == {NoTab} \cup { [exists |-> TRUE, id |-> i, url |-> u] :
                         i \in {0, 7}, u \in Urls }

\* What the user types into the Template ID field.
TypedIds == { <<>>, <<" ">>, <<"a">>, <<" ", "a", " ">> }

\* pathname.startsWith("/") ? pathname.slice(1) : pathname
TemplateIdFromUrl(pathname) ==
  IF pathname # <<>> /\ Head(pathname) = "/" THEN Tail(pathname) ELSE pathname

\* The effect run on mount: the tabs.query callback takes the template id
\* from the path of the active tab's URL (its `templateId` is the initial
\* "", so the test !templateId always passes).
PopupMounted ==
  /\ popup.open
  /\ ~popup.mounted
  /\ \E tab \in Tabs :
       popup' = [popup EXCEPT
                   !.mounted = TRUE,
                   !.templateId =
                      IF /\ tab.exists
                         /\ tab.url.present
                         /\ tab.url.valid
                         /\ TemplateIdFromUrl(tab.url.pathname) # <<>>
                        THEN TemplateIdFromUrl(tab.url.pathname)
                        ELSE @]
  /\ UNCHANGED <<workerVars, mapped, measured, overlayVars, contentVars, click>>

\* onChange of the input, which is disabled while isCapturing.
onChange ==
  /\ popup.open
  /\ ~popup.isCapturing
  /\ \E value \in TypedIds :
       /\ value # popup.templateId
       /\ popup' = [popup EXCEPT !.templateId = value]
  /\ UNCHANGED <<workerVars, mapped, measured, overlayVars, contentVars, click>>

\* handleCaptureThumbnail is called: the template id is validated and the
\* active tab is asked for.  The handler makes its own check of the
\* template id, whatever the button's disabled attribute.
handleCaptureThumbnail ==
  /\ popup.open
  /\ ~popup.isCapturing
  /\ click.pc \in {"idle", "failed"}
  /\ click.clicks < MaxClicks
  /\ IF Trim(popup.templateId) = <<>>
       THEN /\ popup' = [popup EXCEPT
                           !.error = <<"Please enter a Template ID">>]
            /\ click' = [pc |-> "failed", clicks |-> click.clicks + 1,
                         templateId |-> popup.templateId, queried |-> FALSE,
                         tab |-> NoTab, sends |-> <<>>]
       ELSE /\ popup' = [popup EXCEPT !.error = <<>>, !.isCapturing = TRUE]
            /\ click' = [pc |-> "query", clicks |-> click.clicks + 1,
                         templateId |-> popup.templateId, queried |-> FALSE,
                         tab |-> NoTab, sends |-> <<>>]
  /\ UNCHANGED <<workerVars, mapped, measured, overlayVars, contentVars>>

\* Mutant: pages of the extension itself are not refused.
TabErrorAllowsExtensionPages(tab) ==
  IF ~tab.exists THEN <<"Cannot read properties of undefined">>
  ELSE IF tab.id = 0 \/ ~tab.url.present THEN <<"No active tab found">>
  ELSE IF ~tab.url.valid THEN <<"Invalid URL">>
  ELSE IF tab.url.protocol \in {"chrome:", "moz-extension:"}
    THEN <<"Cannot capture screenshots on this page. ",
           "Please navigate to a regular webpage.">>
  ELSE NoError

\* What the checks of the tab throw, if anything: the TypeError of reading
\* tab.id of undefined, "No active tab found", the TypeError of new URL, or
\* the refusal of a browser page.
TabError(tab) ==
  IF ~tab.exists THEN <<"Cannot read properties of undefined">>
  ELSE IF tab.id = 0 \/ ~tab.url.present THEN <<"No active tab found">>
  ELSE IF ~tab.url.valid THEN <<"Invalid URL">>
  ELSE IF tab.url.protocol \in {"chrome:", "chrome-extension:",
                                "moz-extension:"}
    THEN <<"Cannot capture screenshots on this page. ",
           "Please navigate to a regular webpage.">>
  ELSE NoError

\* chrome.tabs.sendMessage(tab.id, {action, templateId: templateId.trim()}),
\* not yet settled.
ShowMessage(tabId, templateId) ==
  [tabId |-> tabId, action |-> "showSelectionOverlay",
   templateId |-> Trim(templateId), settled |-> "pending"]

\* The catch block of handleCaptureThumbnail.
Caught(message) ==
  popup' = [popup EXCEPT !.error = message, !.isCapturing = FALSE]

\* chrome.tabs.query settles: the tab is checked and the message is sent.
QueryDone ==
  /\ click.pc = "query"
  /\ \E tab \in Tabs :
       IF TabError(tab) # NoError
         THEN /\ Caught(TabError(tab))
              /\ click' = [click EXCEPT !.pc = "failed", !.queried = TRUE,
                                        !.tab = tab]
         ELSE /\ click' = [click EXCEPT
                             !.pc = "sendMessage", !.queried = TRUE,
                             !.tab = tab,
                             !.sends = <<ShowMessage(tab.id,
                                                     click.templateId)>>]
              /\ UNCHANGED popup
  /\ UNCHANGED <<workerVars, mapped, measured, overlayVars, contentVars>>

\* Mutant: the message is sent again after every failure, up to three times.
RetriesUpToThree(attempts) == attempts < 3

\* Whether the failure of attempt number `attempts` is caught by the inner
\* catch, which waits and sends again: only the first one is.
Retries(attempts) == attempts < 2

\* The pending sendMessage settles: on success window.close(); the first
\* failure starts the 500 ms wait, the second is thrown to the outer catch.
SendDone ==
  /\ click.pc = "sendMessage"
  /\ \E settled \in {"resolved", "rejected"} :
       LET sends == [click.sends EXCEPT ![Len(click.sends)] =
                       [@ EXCEPT !.settled = settled]]
       IN  IF settled = "resolved"
             THEN /\ popup' = [popup EXCEPT !.open = FALSE]
                  /\ click' = [click EXCEPT !.pc = "closed", !.sends = sends]
           ELSE IF Retries(Len(sends))
             THEN /\ click' = [click EXCEPT !.pc = "setTimeout",
                                            !.sends = sends]
                  /\ UNCHANGED popup
           ELSE /\ Caught(<<"Content script is not available on this page. ",
                            "Please refresh the page and try again.">>)
                /\ click' = [click EXCEPT !.pc = "failed", !.sends = sends]
  /\ UNCHANGED <<workerVars, mapped, measured, overlayVars, contentVars>>

\* The 500 ms have passed: the message is sent again.
TimeoutDone ==
  /\ click.pc = "setTimeout"
  /\ click' = [click EXCEPT
                 !.pc = "sendMessage",
                 !.sends = Append(@, ShowMessage(click.tab.id,
                                                 click.templateId))]
  /\ UNCHANGED <<workerVars, mapped, measured, overlayVars, contentVars,
                 popup>>

NextPopup ==
  \/ PopupMounted
  \/ onChange
  \/ handleCaptureThumbnail
  \/ QueryDone
  \/ SendDone
  \/ TimeoutDone

SpecPopup == InitMap /\ [][NextPopup]_vars

\* ================================================================== claims
\* What the claims call a failed step, read off the response alone: a
\* network error, a non-OK status, a malformed body or a missing field.
Answer(q) == q.resp
IsAnswered(q) == Answer(q).fetch # "pending"

MissingField(q) ==
  CASE q.step = "auth" -> Answer(q).data.token = 0
    [] q.step = "start" ->
         Answer(q).data.server = 0 \/ Answer(q).data.task = 0
    [] q.step = "upload" -> Answer(q).data.server_filename = 0
    [] q.step = "process" -> Answer(q).data.status # "TaskSuccess"
    [] OTHER -> FALSE

StepFailed(q) ==
  /\ IsAnswered(q)
  /\ \/ Answer(q).fetch = "rejected"
     \/ ~Answer(q).ok
     \/ Answer(q).body # "object"
     \/ MissingField(q)

StepSucceeded(q) == IsAnswered(q) /\ ~StepFailed(q)

Requests(c) == 1..Len(issued[c])
FailedAt(c, step) ==
  \E i \in Requests(c) : issued[c][i].step = step /\ StepFailed(issued[c][i])

\* compressImage returned the fallback for the image it was given.
ReturnedFallback(c) ==
  /\ outcome[c].returned
  /\ ~outcome[c].compressed
  /\ outcome[c].error # NoError
  /\ outcome[c].blob = image[c]

\* C1: compressImage never throws: a failure of any of the five steps makes
\* it return compressed = false with an error message and, as final buffer,
\* exactly the image it was given; no call is ever answered with an error
\* once compressImage has been entered.
C1_FailureReturnsFallback ==
  \A c \in Calls :
    /\ (\E i \in Requests(c) : StepFailed(issued[c][i]))
         => pc[c] = "done" /\ ReturnedFallback(c)
    /\ (pc[c] = "done" /\ image[c] # <<>>)
         => outcome[c].returned /\ reply[c].kind = "result"

C1_Witness ==
  \E c \in Calls : FailedAt(c, "download") /\ ReturnedFallback(c)

\* C2: the requests of one call follow the order authenticate, start task,
\* upload, process, download (the authentication request being absent when
\* the cached token is used); every request but the last one issued was
\* answered successfully, so nothing is requested after a failed step.
StepOrder == <<"auth", "start", "upload", "process", "download">>

C2_StrictStepOrder ==
  \A c \in Calls :
    LET n == Len(issued[c])
        skipped == IF n > 0 /\ issued[c][1].step = "start" THEN 1 ELSE 0
    IN  /\ n + skipped <= Len(StepOrder)
        /\ \A i \in 1..n : issued[c][i].step = StepOrder[i + skipped]
        /\ \A i \in 1..(n - 1) : StepSucceeded(issued[c][i])
        /\ skipped = 1 => issued[c][1].token # 0

C2_Witness ==
  \E c \in Calls :
    /\ Len(issued[c]) = 3
    /\ issued[c][1].step = "auth"
    /\ FailedAt(c, "upload")
    /\ pc[c] = "done"

\* C3: at most one authentication request is in flight at any time.
C3_SingleFlight ==
  Cardinality({c \in Calls : pc[c] = "auth"}) <= 1

\* C4: every successful capture result carries the compression outcome: the
\* compressed flag and, when compression failed, the error message.
C4_ResultCarriesCompression ==
  \A c \in Calls :
    (reply[c].sent > 0 /\ reply[c].kind = "result")
      => /\ "compression" \in DOMAIN reply[c].result
         /\ reply[c].result.compression.compressed = outcome[c].compressed
         /\ ~outcome[c].compressed
              => reply[c].result.compression.error = outcome[c].error

\* The bytes a data URL decodes to.
Decoded(url) == url.data.base64

\* C5: once crop and resize have produced the image, the call is answered
\* with a successful result whatever compression did, and when compression
\* failed the result's image is the uncompressed resized image.
C5_CaptureSurvivesCompression ==
  \A c \in Calls :
    (pc[c] = "done" /\ image[c] # <<>>)
      => /\ reply[c].sent = 1
         /\ reply[c].kind = "result"
         /\ reply[c].result.success
         /\ ~outcome[c].compressed
              => Decoded(reply[c].result.imageDataUrl) = image[c]

C5_Witness ==
  \E c \in Calls :
    /\ pc[c] = "done"
    /\ FailedAt(c, "process")
    /\ reply[c].kind = "result"
    /\ Decoded(reply[c].result.imageDataUrl) = image[c]

\* The bearer tokens of the requests a call has sent after authenticating.
Bearers(c) ==
  { issued[c][i].token : i \in { j \in Requests(c) : issued[c][j].step # "auth" } }

\* C6: as long as getAuthToken calls do not overlap and less than two hours
\* have passed since the time sampled by the first call that authenticated
\* successfully, no further authentication request has been issued and
\* every call has been given that call's token.
C6_OneRequestInWindow ==
  (/\ hist.first.set
   /\ ~hist.overlap
   /\ clock < hist.first.sampled + TOKEN_VALIDITY_MS)
    => /\ authIssued = hist.first.id
       /\ cachedToken.token = hist.first.token
       /\ \A c \in Calls : Bearers(c) \subseteq {hist.first.token}

\* A second call served from the cache while the window is still open.
C6_Witness ==
  /\ hist.first.set
  /\ ~hist.overlap
  /\ clock = hist.first.sampled + TOKEN_VALIDITY_MS - 1
  /\ \E c \in Calls :
       /\ Len(issued[c]) > 0
       /\ issued[c][1].step = "start"
       /\ issued[c][1].token = hist.first.token
  /\ authIssued = 1

\* getAuthToken is entered by call c in this step (the key is configured).
EntersGetAuthToken(c) ==
  /\ hasPublicKey
  /\ pc[c] = "convertToBlob"
  /\ image'[c] # <<>>

\* C7: getAuthToken returns the cached token without a request exactly when
\* a token is cached and now < expiresAt; otherwise (also at now =
\* expiresAt) it samples now and issues an authentication request, and a
\* successful response replaces the cache by {new token, now + 2 hours}.
C7_CacheExpiry ==
  [][\A c \in Calls :
       /\ EntersGetAuthToken(c) =>
            IF ~cachedToken.isNull /\ clock < cachedToken.expiresAt
              THEN /\ authIssued' = authIssued
                   /\ pc'[c] = "start"
                   /\ token'[c] = cachedToken.token
              ELSE /\ authIssued' = authIssued + 1
                   /\ pc'[c] = "auth"
                   /\ now'[c] = clock
       /\ (pc[c] = "auth" /\ pc'[c] = "start") =>
            /\ StepSucceeded(issued'[c][1])
            /\ cachedToken' =
                 [isNull |-> FALSE, token |-> issued'[c][1].resp.data.token,
                  expiresAt |-> now[c] + TOKEN_VALIDITY_MS]
            /\ token'[c] = cachedToken'.token
     ]_vars

\* A call made exactly at expiresAt has issued a new authentication request.
C7_Witness ==
  \E c \in Calls :
    /\ pc[c] = "auth"
    /\ ~cachedToken.isNull
    /\ now[c] = cachedToken.expiresAt

\* The process response of request q is an HTTP success whose status field
\* is not "TaskSuccess".
OtherStatus(q) ==
  /\ q.step = "process"
  /\ IsAnswered(q)
  /\ Answer(q).fetch = "resolved"
  /\ Answer(q).ok
  /\ Answer(q).body = "object"
  /\ Answer(q).data.status # "TaskSuccess"

\* C8: an HTTP-successful process response whose status is not "TaskSuccess"
\* makes compressImage return the fallback with a message containing
\* "Processing failed", and no download request is issued.
C8_ProcessNeedsTaskSuccess ==
  \A c \in Calls : \A i \in Requests(c) :
    OtherStatus(issued[c][i])
      => /\ ReturnedFallback(c)
         /\ Contains(outcome[c].error, "Processing failed")
         /\ \A j \in Requests(c) : issued[c][j].step # "download"

C8_Witness ==
  \E c \in Calls : \E i \in Requests(c) :
    /\ OtherStatus(issued[c][i])
    /\ Answer(issued[c][i]).data.status = "TaskError"
    /\ ReturnedFallback(c)
    /\ Contains(outcome[c].error, "Processing failed")

\* All five steps of call c succeeded (the first one possibly from the cache).
AllSucceeded(c) ==
  /\ Len(issued[c]) > 0
  /\ Last(issued[c]).step = "download"
  /\ \A i \in Requests(c) : StepSucceeded(issued[c][i])

\* C9: when all five steps succeed the outcome is compressed = true with the
\* downloaded bytes and the two byte lengths; compressed = true is returned
\* in no other case.
C9_SuccessOutcome ==
  \A c \in Calls :
    /\ AllSucceeded(c) =>
         /\ outcome[c].returned
         /\ outcome[c].compressed
         /\ outcome[c].blob = Answer(Last(issued[c])).data.bytes
         /\ outcome[c].details.originalSize = Len(image[c])
         /\ outcome[c].details.compressedSize =
              Len(Answer(Last(issued[c])).data.bytes)
    /\ (outcome[c].returned /\ outcome[c].compressed) => AllSucceeded(c)

C9_Witness ==
  \E c \in Calls :
    /\ AllSucceeded(c)
    /\ outcome[c].returned
    /\ outcome[c].compressed
    /\ Len(outcome[c].blob) # Len(image[c])

\* The selection lies within the viewport.
WithinViewport(b, viewport) ==
  /\ b.x >= 0
  /\ b.y >= 0
  /\ b.width >= 0
  /\ b.height >= 0
  /\ b.x + b.width <= viewport.width
  /\ b.y + b.height <= viewport.height

InsideScreenshot(region, screenshotWidth, screenshotHeight) ==
  /\ 0 <= region.x
  /\ 0 <= region.y
  /\ region.x + region.width <= screenshotWidth
  /\ region.y + region.height <= screenshotHeight

\* C10: for a selection within the viewport the crop region lies inside the
\* screenshot.
C10_CropInsideScreenshot ==
  (mapped.applied /\ WithinViewport(mapped.cropBounds, MapViewport(mapped)))
    => InsideScreenshot(mapped.region, mapped.screenshotWidth,
                        mapped.screenshotHeight)

\* A selection within the viewport whose scaled width had to be cut.
C10_Witness ==
  /\ mapped.applied
  /\ WithinViewport(mapped.cropBounds, MapViewport(mapped))
  /\ mapped.cropBounds.width > 0
  /\ mapped.region.x + MathRound(mapped.cropBounds.width * mapped.screenshotWidth,
                                 MapViewport(mapped).width)
       > mapped.screenshotWidth
  /\ InsideScreenshot(mapped.region, mapped.screenshotWidth,
                      mapped.screenshotHeight)

\* A selection is a rectangle: its size is not negative.  Its origin may lie
\* anywhere.
IsSelection(b) == b.width >= 0 /\ b.height >= 0

\* C11: whatever the origin and size of the selection (an origin left of or
\* above the viewport, an origin beyond it, a size larger than it), the crop
\* width and height are not negative and do not exceed the screenshot's.
C11_CropSizeInRange ==
  (mapped.applied /\ IsSelection(mapped.cropBounds))
    => /\ 0 <= mapped.region.width
       /\ mapped.region.width <= mapped.screenshotWidth
       /\ 0 <= mapped.region.height
       /\ mapped.region.height <= mapped.screenshotHeight

\* A selection that starts left of the viewport, is wider than it and ends
\* below it: the crop is as wide as the whole screenshot.
C11_Witness ==
  /\ mapped.applied
  /\ mapped.cropBounds.x < 0
  /\ mapped.cropBounds.width > MapViewport(mapped).width
  /\ mapped.cropBounds.y >= MapViewport(mapped).height
  /\ mapped.cropBounds.height > 0
  /\ mapped.region.width = mapped.screenshotWidth
  /\ mapped.region.height <= 1

\* The reference mapping, written from its definition: the integer nearest
\* to num / den (the upper one of two), and a value held between two limits.
Abs(n) == IF n < 0 THEN -n ELSE n

Nearest(num, den) ==
  LET far == Abs(num) \div den + 1
  IN  CHOOSE n \in (-far)..far :
        /\ (2 * n - 1) * den <= 2 * num
        /\ 2 * num < (2 * n + 1) * den

Clamp(v, low, high) == IF v < low THEN low ELSE IF v > high THEN high ELSE v

ReferenceRegion(sel, viewport, screenshotWidth, screenshotHeight) ==
  LET x == Clamp(Nearest(sel.x * screenshotWidth, viewport.width),
                 0, screenshotWidth - 1)
      y == Clamp(Nearest(sel.y * screenshotHeight, viewport.height),
                 0, screenshotHeight - 1)
      w == Nearest(sel.width * screenshotWidth, viewport.width)
      h == Nearest(sel.height * screenshotHeight, viewport.height)
  IN  [x |-> x, y |-> y,
       width |-> IF w < screenshotWidth - x THEN w ELSE screenshotWidth - x,
       height |-> IF h < screenshotHeight - y THEN h ELSE screenshotHeight - y]

\* The mapping was applied to this selection, seen in a 1280x720 viewport,
\* on a screenshot of this size.
Mapped1280x720(sel, screenshotWidth, screenshotHeight) ==
  /\ mapped.applied
  /\ mapped.cropBounds = sel
  /\ mapped.result = [ok |-> TRUE, width |-> 1280, height |-> 720]
  /\ mapped.screenshotWidth = screenshotWidth
  /\ mapped.screenshotHeight = screenshotHeight

\* C12: the crop region equals the reference mapping for every input, and
\* the three documented captures map to the documented regions.
C12_MappingEqualsReference ==
  /\ mapped.applied =>
       mapped.region = ReferenceRegion(mapped.cropBounds, MapViewport(mapped),
                                       mapped.screenshotWidth,
                                       mapped.screenshotHeight)
  /\ Mapped1280x720([x |-> 100, y |-> 100, width |-> 320, height |-> 180],
                    1280, 720)
       => mapped.region = [x |-> 100, y |-> 100, width |-> 320, height |-> 180]
  /\ Mapped1280x720([x |-> 100, y |-> 100, width |-> 320, height |-> 180],
                    2560, 1440)
       => mapped.region = [x |-> 200, y |-> 200, width |-> 640, height |-> 360]
  /\ Mapped1280x720([x |-> 1200, y |-> 100, width |-> 320, height |-> 180],
                    1280, 720)
       => mapped.region = [x |-> 1200, y |-> 100, width |-> 80, height |-> 180]

\* The capture at device pixel ratio 2 has been mapped.
C12_Witness ==
  /\ Mapped1280x720([x |-> 100, y |-> 100, width |-> 320, height |-> 180],
                    2560, 1440)
  /\ mapped.region.width = 2 * mapped.cropBounds.width

ZeroArea(b) == b.width = 0 \/ b.height = 0

\* C13: a zero-area selection gives a degenerate crop region that the crop
\* and resize stage tolerates: a call that has decoded the screenshot of
\* such a selection is not answered with an error, unless the platform gave
\* no canvas context.
C13_DegenerateRegionTolerated ==
  \A c \in Calls :
    (/\ reply[c].sent > 0
     /\ reply[c].kind = "error"
     /\ shot[c].width > 0
     /\ ZeroArea(req[c].bounds))
      => reply[c].error = <<"Failed to get crop canvas context">>

\* C14: without a public key no request is ever issued to any of the five
\* endpoints, and a call whose image was produced has got the fallback of
\* compressImage with the configuration error (compressed = false, the image
\* it was given) and is answered with a successful result of that image.
C14_NoKeyNoRequest ==
  ~hasPublicKey
    => /\ authIssued = 0
       /\ startIssued = 0
       /\ \A c \in Calls :
            /\ issued[c] = <<>>
            /\ pc[c] \notin {"auth", "start", "upload", "process", "download"}
            /\ image[c] # <<>>
                 => /\ pc[c] = "done"
                    /\ ReturnedFallback(c)
                    /\ outcome[c].error = ConfigurationError
                    /\ reply[c].sent = 1
                    /\ reply[c].kind = "result"
                    /\ reply[c].result.success
                    /\ Decoded(reply[c].result.imageDataUrl) = image[c]

\* Two captures have been answered without a key.
C14_Witness ==
  /\ ~hasPublicKey
  /\ \A c \in Calls :
       /\ image[c] # <<>>
       /\ reply[c].kind = "result"
       /\ outcome[c].error = ConfigurationError

\* The display capture of call c failed or returned no image.
CaptureFailed(c) ==
  \/ dataUrl[c].settled = "rejected"
  \/ dataUrl[c].settled = "resolved" /\ dataUrl[c].url = ""

\* The message of call c came without a sender tab id.
NoTabId(c) ==
  /\ reply[c].sent > 0
  /\ reply[c].kind = "error"
  /\ reply[c].error = <<"No tab ID found">>

\* No crop or resize was done and no compression request was issued for c.
NoPipelineWork(c) ==
  /\ shot[c] = [width |-> 0, height |-> 0]
  /\ crop[c] = NoRegion
  /\ image[c] = <<>>
  /\ issued[c] = <<>>
  /\ ~outcome[c].returned

\* C15: a request whose display capture failed or returned no image, or
\* that has no sender tab id, is answered with an error, once, and nothing
\* of the pipeline was run for it; without a tab id not even the capture.
C15_NoWorkWithoutCapture ==
  \A c \in Calls :
    /\ (CaptureFailed(c) \/ NoTabId(c))
         => /\ pc[c] = "done"
            /\ reply[c].sent = 1
            /\ reply[c].kind = "error"
            /\ NoPipelineWork(c)
    /\ NoTabId(c) => dataUrl[c] = NoCapture

\* One request without a tab id and one whose capture returned no image.
C15_Witness ==
  \E c \in Calls, d \in Calls :
    /\ NoTabId(c)
    /\ dataUrl[d].settled = "resolved"
    /\ dataUrl[d].url = ""
    /\ reply[d].kind = "error"
    /\ reply[d].error = <<"Failed to capture screenshot">>

\* C16: the filename of a result is the templateId followed by the
\* extension when the templateId is non-empty after trimming, and
\* "thumbnail-", the epoch milliseconds of the moment and the extension
\* otherwise; the extension is "png" for image/png and "jpg" otherwise.
C16_FilenameFromTemplateId ==
  \A c \in Calls :
    (reply[c].sent > 0 /\ reply[c].kind = "result")
      => LET name == reply[c].result.filename
         IN  /\ name.ext =
                  IF imageConfig.format = "image/png" THEN "png" ELSE "jpg"
             /\ IF Trim(req[c].templateId) # <<>>
                  THEN name.stem = req[c].templateId /\ name.epoch = -1
                  ELSE /\ name.stem = <<"thumbnail-">>
                       /\ 0 <= name.epoch
                       /\ name.epoch <= clock

\* C17: a call of compressImage sends at most one request to each endpoint;
\* once one of its requests has failed it sends nothing more, and requests
\* are sent for that call record again only by a new message, whose
\* compressImage starts over at the authenticate step: with an
\* authentication request, or with the start request under the valid cached
\* token.
C17_SingleAttempt ==
  [][\A c \in Calls :
       /\ \A i \in 1..Len(issued'[c]), j \in 1..Len(issued'[c]) :
            i # j => issued'[c][i].step # issued'[c][j].step
       /\ (\E i \in Requests(c) : StepFailed(issued[c][i]))
            => \/ issued'[c] = issued[c]
               \/ issued'[c] = <<>> /\ msgs' = msgs + 1
       /\ (issued[c] = <<>> /\ issued'[c] # <<>>)
            => /\ pc[c] = "convertToBlob"
               /\ Len(issued'[c]) = 1
               /\ \/ issued'[c][1].step = "auth"
                  \/ /\ issued'[c][1].step = "start"
                     /\ ~cachedToken.isNull
                     /\ clock < cachedToken.expiresAt
                     /\ issued'[c][1].token = cachedToken.token
     ]_vars

\* A call has failed at the start step after authenticating, and another
\* call has sent the second authentication request.
C17_Witness ==
  \E c \in Calls, d \in Calls :
    /\ c # d
    /\ pc[c] = "done"
    /\ Len(issued[c]) = 2
    /\ FailedAt(c, "start")
    /\ Len(issued[d]) > 0
    /\ issued[d][1].step = "auth"
    /\ issued[d][1].id = 2

\* C18: compressImage is given a cancellation signal that every request of
\* the workflow carries, and a request whose signal was triggered is aborted:
\* the call has returned the fallback.
C18_CancellationAborts ==
  \A c \in Calls : \A i \in Requests(c) :
    /\ "signal" \in DOMAIN issued[c][i]
    /\ issued[c][i].signal.aborted => (pc[c] = "done" /\ ReturnedFallback(c))

\* C19: for originalSize > 0 the reported reduction is a number, a tenth of
\* a percent nearest to (1 - compressedSize / originalSize) * 100; for
\* 50000 and 12000 bytes it is 76.0.
C19_ReductionPercentage ==
  (measured.applied /\ measured.originalSize > 0)
    => /\ measured.reduction.kind = "number"
       /\ 2 * Abs(measured.reduction.tenths * measured.originalSize
                    - 1000 * (measured.originalSize - measured.compressedSize))
            <= measured.originalSize
       /\ (measured.originalSize = 50000 /\ measured.compressedSize = 12000)
            => measured.reduction.tenths = 760

C19_Witness ==
  /\ measured.applied
  /\ measured.originalSize = 50000
  /\ measured.compressedSize = 12000
  /\ measured.reduction.tenths = 760

\* width / height = 16 / 9
AspectLocked(b) == 9 * b.width = 16 * b.height

\* C20: the selection box has the aspect ratio 16:9 from the moment it is
\* shown and after every drag and resize event, in every window, and so
\* have the bounds handed to the capture.
C20_SelectionAspectLocked ==
  /\ window # NoWindow => AspectLocked(bounds)
  /\ committed.called => AspectLocked(committed.bounds)


\* ---------------------------------------------------------------- C21
\* The call's crop and resize stage has drawn into its target canvas: the
\* canvas is being encoded, or the encoded image has been handed on.
Resized(c) == pc[c] = "convertToBlob" \/ image[c] # <<>>

Delivered(c) ==
  /\ msgs' = msgs + 1
  /\ pc[c] \in {"idle", "done"}
  /\ \A other \in 1..(c - 1) : pc[other] \notin {"idle", "done"}

\* The step settles the handleScreenshotCapture promise of call c.
Settled(c) == pc[c] \notin {"idle", "done"} /\ pc'[c] = "done"

\* C25: a captureScreenshot message is answered exactly once: with the error
\* "No tab ID found" at once when the sender has no tab id, with the capture
\* result when handleScreenshotCapture resolves, with {error: message} when
\* it rejects, and at no other step; a message with another action is not
\* answered.
C25_AnsweredExactlyOnce ==
  [][\A c \in Calls :
       /\ reply'[c].sent <= 1
       /\ Delivered(c) =>
            /\ pc'[c] = "idle" => reply'[c].sent = 0
            /\ pc'[c] = "captureVisibleTab" => reply'[c].sent = 0
            /\ pc'[c] = "done" =>
                 reply'[c] = [sent |-> 1, kind |-> "error",
                              error |-> <<"No tab ID found">>]
       /\ Settled(c) =>
            /\ reply[c].sent = 0
            /\ reply'[c].sent = 1
            /\ outcome'[c].returned =>
                 /\ reply'[c].kind = "result"
                 /\ reply'[c].result =
                      CaptureResult(outcome'[c], req[c].templateId, clock)
            /\ ~outcome'[c].returned =>
                 /\ reply'[c].kind = "error"
                 /\ reply'[c].error # NoError
       /\ (~Delivered(c) /\ ~Settled(c)) => reply'[c] = reply[c]
    ]_vars

\* A capture was answered with its result while the message with another
\* action that came after it got no answer.
C25_Witness ==
  /\ msgs = 2
  /\ pc[1] = "done"
  /\ reply[1].sent = 1
  /\ reply[1].kind = "result"
  /\ pc[2] = "idle"
  /\ reply[2].sent = 0


\* ---------------------------------------------------------------- C28
\* The selection with both scale factors 1: rounded, then clamped into the
\* screenshot.
RoundedAndClamped(sel, screenshotWidth, screenshotHeight) ==
  LET x == Clamp(MathRound(sel.x, 1), 0, screenshotWidth - 1)
      y == Clamp(MathRound(sel.y, 1), 0, screenshotHeight - 1)
  IN  [x |-> x, y |-> y,
       width |-> Min(MathRound(sel.width, 1), screenshotWidth - x),
       height |-> Min(MathRound(sel.height, 1), screenshotHeight - y)]

\* C28: when the injected script fails or returns no result, processImage
\* still computes a crop region: the viewport is taken to be the screenshot,
\* so both scale factors are exactly 1, and the region is the selection
\* itself, rounded and clamped into the screenshot.
C28_ViewportFallback ==
  (mapped.applied /\ ~mapped.result.ok)
    => /\ MapViewport(mapped).width = mapped.screenshotWidth
       /\ MapViewport(mapped).height = mapped.screenshotHeight
       /\ mapped.screenshotWidth = 1 * MapViewport(mapped).width
       /\ mapped.screenshotHeight = 1 * MapViewport(mapped).height
       /\ mapped.region = RoundedAndClamped(mapped.cropBounds,
                                            mapped.screenshotWidth,
                                            mapped.screenshotHeight)

\* Without a script result, a selection inside a 3x2 screenshot kept its
\* origin and height and had its width cut at the right edge.
C28_Witness ==
  /\ mapped.applied
  /\ ~mapped.result.ok
  /\ mapped.screenshotWidth = 3
  /\ mapped.screenshotHeight = 2
  /\ mapped.cropBounds = [x |-> 1, y |-> 1, width |-> 3, height |-> 1]
  /\ mapped.region = [x |-> 1, y |-> 1, width |-> 2, height |-> 1]


\* ---------------------------------------------------------------- C29
\* In this step call c receives an authentication response with a token.
AuthSucceeds(c) ==
  /\ pc[c] = "auth"
  /\ pc'[c] = "start"
  /\ Len(issued'[c]) = 2
  /\ StepSucceeded(issued'[c][1])
  /\ Answer(issued'[c][1]).data.token # 0

\* In this step the pending request of call c is answered with a failure.
FailsNow(c) ==
  /\ Len(issued[c]) > 0
  /\ Len(issued'[c]) = Len(issued[c])
  /\ ~IsAnswered(Last(issued[c]))
  /\ StepFailed(Last(issued'[c]))

\* C29: the cached credential changes only when an authentication response
\* with a token arrives, and then it holds that token; a failed or
\* token-less authentication and a failure of start, upload, process or
\* download, a rejected authorization included, leave the cache as it was.
C29_CacheChangesOnlyOnAuth ==
  [][/\ cachedToken' # cachedToken =>
          \E c \in Calls :
            /\ AuthSucceeds(c)
            /\ ~cachedToken'.isNull
            /\ cachedToken'.token = Answer(issued'[c][1]).data.token
     /\ \A c \in Calls : FailsNow(c) => cachedToken' = cachedToken
    ]_vars

\* The start request of a call was refused with 401 and the token it was
\* sent with is still the one cached.
C29_Witness ==
  \E c \in Calls :
    /\ FailedAt(c, "start")
    /\ Answer(Last(issued[c])).status = "401"
    /\ Answer(Last(issued[c])).fetch = "resolved"
    /\ ~cachedToken.isNull
    /\ cachedToken.token = Last(issued[c]).token


\* ---------------------------------------------------------------- C30
\* C30: in every interleaving of overlapping getAuthToken calls, the expiry
\* of the cached token never moves backwards: a write to the cache does not
\* replace an expiry by an earlier one.
C30_ExpiryNeverBackwards ==
  [][(~cachedToken.isNull /\ ~cachedToken'.isNull)
       => cachedToken'.expiresAt >= cachedToken.expiresAt]_vars


\* ---------------------------------------------------------------- C22
\* In this step call k of handleCapture sends its captureScreenshot request.
SendsRequest(k) ==
  /\ captures[k].pc = "requestAnimationFrame"
  /\ captures'[k].pc = "sendMessage"

\* C22: whenever handleCapture sends the captureScreenshot request,
\* overlayState.show is false, in every interleaving with incoming
\* showSelectionOverlay messages.
C22_HiddenWhenRequestSent ==
  [][\A k \in Captures : SendsRequest(k) => ~overlayState.show]_vars

\* ---------------------------------------------------------------- C23
\* C23: every showSelectionOverlay message is answered with success, before
\* or after the component mounts, and a message whose overlay the user has
\* not yet acted on is not lost: whenever the component is mounted and no
\* capture is processing or awaiting download, the overlay is shown with
\* the templateId of the most recent message.
C23_MessageNeverLost ==
  /\ inbox.answered = inbox.shows
  /\ (inbox.pending /\ component.mounted /\ ~component.isProcessing
        /\ component.downloadData.isNull)
       => /\ View = "SelectionOverlay"
          /\ component.templateId = OrNull(inbox.templateId)


\* ---------------------------------------------------------------- C24
\* In this step the captureScreenshot request of call k settles.
Settles(k) == captures[k].pc = "sendMessage" /\ captures'[k].pc = "idle"

\* The capture failed: sending threw, or the response carries an error.
ResponseFailed(r) ==
  \/ r.settled = "rejected"
  \/ r.settled = "resolved" /\ r.defined /\ r.error # <<>>

\* The capture succeeded: a response without an error.
ResponseSucceeded(r) ==
  r.settled = "resolved" /\ r.defined /\ r.error = <<>>

\* C24: when a capture fails, the processing indicator is cleared, the
\* download data is left as it was and the selection overlay is shown again
\* (rendered, unless the download view of another capture is up); when it
\* succeeds, the indicator is cleared and the download view is rendered
\* with the image and the filename of the response.
C24_CaptureOutcomeShown ==
  [][\A k \in Captures :
       Settles(k) =>
         LET r == captures'[k].response
         IN  /\ ResponseFailed(r) =>
                  /\ ~component'.isProcessing
                  /\ component'.downloadData = component.downloadData
                  /\ overlayState'.show
                  /\ component'.showOverlay
                  /\ component.downloadData.isNull
                       => View' = "SelectionOverlay"
             /\ ResponseSucceeded(r) =>
                  /\ ~component'.isProcessing
                  /\ ~component'.downloadData.isNull
                  /\ component'.downloadData.imageDataUrl = r.imageDataUrl
                  /\ component'.downloadData.filename = r.filename
                  /\ View' = "DownloadUI"
    ]_vars

\* After the only showSelectionOverlay message, a capture was answered with
\* an error and the overlay, hidden for the capture, is rendered again.
C24_Witness ==
  \E k \in Captures :
    /\ inbox.shows = 1
    /\ captures[k].pc = "idle"
    /\ captures[k].response.settled = "resolved"
    /\ captures[k].response.error = <<"Failed to capture screenshot">>
    /\ ~component.isProcessing
    /\ component.downloadData.isNull
    /\ View = "SelectionOverlay"


\* ---------------------------------------------------------------- C26
\* n blanks.
Blanks(n) == [i \in 1..n |-> " "]

\* short is long without its leading and trailing blanks.
IsTrimmed(short, long) ==
  /\ short # <<>> => (short[1] # " " /\ short[Len(short)] # " ")
  /\ \E i \in 0..Len(long), j \in 0..Len(long) :
       long = Blanks(i) \o short \o Blanks(j)

\* The template id is not empty once trimmed.
NonBlank(templateId) == \E i \in 1..Len(templateId) : templateId[i] # " "

\* The tab has an id and a URL whose protocol is none of the refused ones.
Injectable(tab) ==
  /\ tab.exists
  /\ tab.id # 0
  /\ tab.url.present
  /\ tab.url.valid
  /\ tab.url.protocol \notin {"chrome:", "chrome-extension:", "moz-extension:"}

\* C26: the popup sends showSelectionOverlay only for a template id that is
\* not empty once trimmed and an active tab with an id and a URL whose
\* protocol is none of chrome:, chrome-extension:, moz-extension:, and the
\* templateId of the message is the trimmed value; otherwise nothing is
\* sent, an error text is set and the popup stays open with isCapturing
\* false.
C26_MessageOnlyWhenValid ==
  /\ \A i \in 1..Len(click.sends) :
       /\ NonBlank(click.templateId)
       /\ click.queried
       /\ Injectable(click.tab)
       /\ click.sends[i].action = "showSelectionOverlay"
       /\ click.sends[i].tabId = click.tab.id
       /\ click.sends[i].templateId # <<>>
       /\ IsTrimmed(click.sends[i].templateId, click.templateId)
  /\ (/\ click.clicks > 0
      /\ click.pc # "query"
      /\ ~(NonBlank(click.templateId) /\ Injectable(click.tab)))
       => /\ click.sends = <<>>
          /\ popup.error # <<>>
          /\ popup.open
          /\ ~popup.isCapturing

\* The id typed with a blank on either side was sent, trimmed, to a web
\* page.
C26_Witness ==
  /\ click.templateId = <<" ", "a", " ">>
  /\ click.tab.url.protocol = "https:"
  /\ Len(click.sends) = 1
  /\ click.sends[1].templateId = <<"a">>

StartOf(c) ==
  CHOOSE i \in Requests(c) : issued[c][i].step = "start"

\* C31: within one call, the start, upload, process and download requests
\* all carry one token, the one returned by the call's own authentication
\* when it authenticated, and the upload, process and download requests
\* are addressed to the server and task of the call's own start response,
\* whatever other calls have written to the cache meanwhile.
C31_CallKeepsItsCredentials ==
  \A c \in Calls :
    \A i \in Requests(c) :
      LET q == issued[c][i]
      IN  /\ q.step # "auth" =>
               /\ q.token # 0
               /\ q.token = issued[c][StartOf(c)].token
               /\ issued[c][1].step = "auth" =>
                    q.token = Answer(issued[c][1]).data.token
          /\ q.step \in {"upload", "process", "download"} =>
               /\ StartOf(c) < i
               /\ q.server # 0
               /\ q.task # 0
               /\ q.server = Answer(issued[c][StartOf(c)]).data.server
               /\ q.task = Answer(issued[c][StartOf(c)]).data.task

\* A call has sent its download request with the token of its own
\* authentication after another call replaced the cached token, and the
\* two calls work on different tasks.
C31_Witness ==
  \E c \in Calls, d \in Calls :
    /\ c # d
    /\ Len(issued[c]) = 5
    /\ Last(issued[c]).step = "download"
    /\ Last(issued[c]).token = Answer(issued[c][1]).data.token
    /\ ~cachedToken.isNull
    /\ cachedToken.token # Last(issued[c]).token
    /\ Len(issued[d]) >= 3
    /\ Last(issued[d]).task # Last(issued[c]).task
    /\ Last(issued[d]).token = cachedToken.token

====
